---- MODULE Spec2Model ----
(***************************************************************************)
(* Verification model of bids_qc_pkg/struct:                               *)
(*   struct_pipeline_initial.py, struct_pipeline_final.py  (QC passes),    *)
(*   struct_generate_html_reports.py (review server, ledger),              *)
(*   struct_report_generator.py (static reports).                          *)
(***************************************************************************)
EXTENDS Integers, Sequences, FiniteSets, TLC

VARIABLES
    data,          \* slice selection: the volume, data[z+1][x+1][y+1]
    num_slices,    \* slice selection: the requested count N
    res_initial,   \* result of struct_pipeline_initial.find_slices_of_interest
    res_final,     \* result of struct_pipeline_final.find_slices_of_interest
    drawn_initial, \* slice selection: the slice indices the initial montage shows
    drawn_final,   \* slice selection: the slice indices the final montages show
    sl_pc,         \* slice selection: which copies have run
    csv_exists,    \* ledger: os.path.exists(MASTER_CSV)
    csv_text,      \* ledger: the characters of the file MASTER_CSV
    seen_order,    \* ledger history: the filename keys in order of first upsert
    last_upsert,   \* ledger history: per key, the last status and notes upserted
    http_status,   \* ledger: the status of the last qc_update response
    request,       \* ledger: the JSON object of the last qc_update request
    csv_written,   \* ledger: whether the last qc_update request wrote the file
    rq,            \* ledger: the qc_update requests being served at the same time,
                   \* each with its position in update_csv and the rows it read
    rq_events,     \* ledger history: the reads and writes of the requests, in order
    walk,          \* reports: the directories os.walk has yielded, each its filenames
    data_map,      \* review server: generate_in_memory_pages' data_map, in insertion order
    srv_pc,        \* review server: "walking", "built" or "rebuilt" (built again)
    PAGES,         \* review server: the global PAGES
    FILE_MAP,      \* review server: the global FILE_MAP, entry id+1 is the path of id
    FILE_ID_COUNTER, \* review server: the global FILE_ID_COUNTER
    st_data_map,   \* static reports: generate_html_reports' data_map, in insertion order
    st_pc,         \* static reports: "walking" or "built"
    st_reports,    \* static reports: the reports written, in order
    stats_lines,   \* statistics record: the lines the file was made of
    stats_text,    \* statistics record: the characters of the file
    stats_html,    \* statistics record: what each embed_stats rendered from it
    bids_tree,     \* QC passes: the files os.walk yields, in order, with what the
                   \* environment does for each (load, plot, skull stripping)
    accepted,      \* final pass: the set load_accepted_csv returned
    pass,          \* QC passes: which traversal runs, "initial" or "final"
    tv_pc,         \* QC passes: "walking", "done" or "aborted" (an exception left the loop)
    tv_pos,        \* QC passes: how many files of bids_tree the loop has visited
    processed,     \* QC passes: the files passed to process_scan_initial/_final
    written,       \* QC passes: the artifacts written to the results tree
    fs,            \* QC passes: the files of the BIDS tree outside results
    derived,       \* QC passes: the volumes process_skull_stripping has written
    tool_runs,     \* QC passes: the runs of the skull-stripping tool (traversal,
                   \* scan, whether the output was there afterwards)
    tv_log,        \* QC passes: the records logged at error or warning level
    run_no         \* QC passes: the number of the traversal, 1 for the first

slVars == <<data, num_slices, res_initial, res_final, drawn_initial, drawn_final, sl_pc>>
ldVars == <<csv_exists, csv_text, seen_order, last_upsert, http_status, request,
           csv_written, rq, rq_events>>
grVars == <<walk, data_map, srv_pc, PAGES, FILE_MAP, FILE_ID_COUNTER,
            st_data_map, st_pc, st_reports, stats_lines, stats_text, stats_html>>
ppVars == <<bids_tree, accepted, pass, tv_pc, tv_pos, processed, written,
            fs, derived, tool_runs, tv_log, run_no>>
vars == <<slVars, ldVars, grVars, ppVars>>

(***************************************************************************)
(* Bounds of the model.                                                    *)
(***************************************************************************)
MaxZ == 31        \* largest z_size of a volume
MaxN == 23        \* largest num_slices
MaxGap == 1       \* largest distance between the two non-dark slices of a volume
MaxFiles == 3     \* most files in a results tree
MaxScans == 2     \* most files in a BIDS tree
MaxLines == 2     \* most lines of a statistics record
MaxFields == 6    \* most fields of a line of a statistics record
MaxRuns == 3      \* most traversals of one BIDS tree
MaxRerunScans == 1  \* most files in a BIDS tree that is traversed again
MaxRegenFiles == 2  \* most files in a results tree that is scanned again

(***************************************************************************)
(* Generic helpers.                                                        *)
(***************************************************************************)
RECURSIVE Pow2(_)
Pow2(k) == IF k = 0 THEN 1 ELSE 2 * Pow2(k - 1)

Max(a, b) == IF a >= b THEN a ELSE b
Min(a, b) == IF a <= b THEN a ELSE b

RECURSIVE SumSeq(_)
SumSeq(s) == IF s = <<>> THEN 0 ELSE Head(s) + SumSeq(Tail(s))

(***************************************************************************)
(* The parts of the state a specification does not use.                    *)
(***************************************************************************)
SlicesIdle ==
    /\ data = <<>> /\ num_slices = 0 /\ res_initial = <<>> /\ res_final = <<>>
    /\ drawn_initial = <<>> /\ drawn_final = <<>>
    /\ sl_pc = "idle"

PipelineIdle ==
    /\ bids_tree = <<>> /\ accepted = {} /\ pass = "none" /\ tv_pc = "idle"
    /\ tv_pos = 0 /\ processed = {} /\ written = {}
    /\ fs = {} /\ derived = {} /\ tool_runs = {} /\ tv_log = {} /\ run_no = 0

StatsIdle == stats_lines = <<>> /\ stats_text = <<>> /\ stats_html = <<>>

ReportsIdle ==
    /\ walk = <<>> /\ data_map = <<>> /\ srv_pc = "idle"
    /\ PAGES = <<>> /\ FILE_MAP = <<>> /\ FILE_ID_COUNTER = 0
    /\ st_data_map = <<>> /\ st_pc = "idle" /\ st_reports = <<>>

GroupIdle == ReportsIdle /\ StatsIdle

(***************************************************************************)
(* Natural numbers of arbitrary size, as little-endian sequences of limbs  *)
(* in base 2^15: the 53-bit significands of IEEE-754 doubles do not fit    *)
(* the model checker's integers.                                           *)
(***************************************************************************)
LimbBits == 15
Base == 32768

RECURSIVE BNorm(_)
BNorm(a) == IF a = <<>> THEN <<>>
            ELSE IF a[Len(a)] = 0 THEN BNorm(SubSeq(a, 1, Len(a) - 1))
            ELSE a

RECURSIVE BFromInt(_)
BFromInt(n) == IF n = 0 THEN <<>> ELSE <<n % Base>> \o BFromInt(n \div Base)

RECURSIVE BToInt(_)
BToInt(a) == IF a = <<>> THEN 0 ELSE Head(a) + Base * BToInt(Tail(a))

\* a * k + carry, for 0 <= k <= Base
RECURSIVE BMulSmall(_, _, _)
BMulSmall(a, k, carry) ==
    IF a = <<>> THEN BFromInt(carry)
    ELSE LET t == Head(a) * k + carry
         IN  <<t % Base>> \o BMulSmall(Tail(a), k, t \div Base)

\* a + b + carry
RECURSIVE BAdd(_, _, _)
BAdd(a, b, carry) ==
    IF a = <<>> /\ b = <<>> THEN BFromInt(carry)
    ELSE LET x == IF a = <<>> THEN 0 ELSE Head(a)
             y == IF b = <<>> THEN 0 ELSE Head(b)
             t == x + y + carry
         IN  <<t % Base>> \o BAdd(IF a = <<>> THEN <<>> ELSE Tail(a),
                                  IF b = <<>> THEN <<>> ELSE Tail(b),
                                  t \div Base)

\* quotient and remainder of a by d, 1 <= d <= Base; limbs taken from the top
RECURSIVE BDivStep(_, _, _, _)
BDivStep(a, i, d, r) ==
    IF i = 0 THEN [q |-> <<>>, r |-> r]
    ELSE LET cur  == r * Base + a[i]
             rest == BDivStep(a, i - 1, d, cur % d)
         IN  [q |-> rest.q \o <<cur \div d>>, r |-> rest.r]

BDivSmall(a, d) ==
    LET res == BDivStep(a, Len(a), d, 0)
    IN  [q |-> BNorm(res.q), r |-> res.r]

RECURSIVE IntBitLen(_)
IntBitLen(n) == IF n = 0 THEN 0 ELSE 1 + IntBitLen(n \div 2)

BBitLen(a) ==
    LET n == BNorm(a)
    IN  IF n = <<>> THEN 0
        ELSE (Len(n) - 1) * LimbBits + IntBitLen(n[Len(n)])

\* a * 2^k
RECURSIVE BShiftLeft(_, _)
BShiftLeft(a, k) ==
    IF a = <<>> THEN <<>>
    ELSE IF k >= LimbBits THEN <<0>> \o BShiftLeft(a, k - LimbBits)
    ELSE BNorm(BMulSmall(a, Pow2(k), 0))

\* floor(a / 2^k)
RECURSIVE BShiftRight(_, _)
BShiftRight(a, k) ==
    IF a = <<>> THEN <<>>
    ELSE IF k >= LimbBits THEN BShiftRight(Tail(a), k - LimbBits)
    ELSE BDivSmall(a, Pow2(k)).q

BIsOdd(a) == a # <<>> /\ Head(a) % 2 = 1

(***************************************************************************)
(* IEEE-754 binary64 values >= 0, as exact dyadic numbers m * 2^e with m   *)
(* of at most 53 significant bits; every operation rounds its exact result *)
(* to nearest, ties to even (the default rounding mode numpy runs in).     *)
(***************************************************************************)
SigBits == 53

\* the double nearest to m * 2^e
FRound(m, e) ==
    LET L == BBitLen(m)
    IN  IF L <= SigBits THEN [m |-> BNorm(m), e |-> e]
        ELSE LET s      == L - SigBits
                 q      == BShiftRight(m, s)
                 upper  == BShiftRight(m, s - 1)
                 sticky == BNorm(BShiftLeft(upper, s - 1)) # BNorm(m)
                 up     == BIsOdd(upper) /\ (sticky \/ BIsOdd(q))
             IN  [m |-> IF up THEN BNorm(BAdd(q, <<>>, 1)) ELSE q,
                  e |-> e + s]

FFromInt(n) == [m |-> BFromInt(n), e |-> 0]

\* the double nearest to a / d, for integers a >= 1, 1 <= d <= Base
FDivInt(a, d) ==
    LET wide == BDivSmall(BShiftLeft(BFromInt(a), 5 * LimbBits), d).q
        s    == BBitLen(wide) - SigBits
        num  == BShiftLeft(BFromInt(a), 5 * LimbBits - s)
        qr   == BDivSmall(num, d)
        up   == 2 * qr.r > d \/ (2 * qr.r = d /\ BIsOdd(qr.q))
    IN  [m |-> IF up THEN BNorm(BAdd(qr.q, <<>>, 1)) ELSE qr.q,
         e |-> s - 5 * LimbBits]

\* the double nearest to x * k, for an integer 0 <= k <= Base
FMulInt(x, k) == FRound(BNorm(BMulSmall(x.m, k, 0)), x.e)

\* the double nearest to x + n, for an integer n >= 0 and x.e <= 0
FAddInt(x, n) ==
    FRound(BNorm(BAdd(x.m, BShiftLeft(BFromInt(n), 0 - x.e), 0)), x.e)

\* floor(x) as an integer, for x.e <= 0
FFloor(x) == BToInt(BShiftRight(x.m, 0 - x.e))

(***************************************************************************)
(* numpy, as find_slices_of_interest uses it.                              *)
(***************************************************************************)
\* np.sum(data, axis=(0, 1)): per z, the sum of the slice over x and y
RECURSIVE SumRows(_)
SumRows(slice) == IF slice = <<>> THEN 0 ELSE SumSeq(Head(slice)) + SumRows(Tail(slice))

RECURSIVE np_sum_axis01(_)
np_sum_axis01(vol) ==
    IF vol = <<>> THEN <<>> ELSE <<SumRows(Head(vol))>> \o np_sum_axis01(Tail(vol))

\* a variant that returns the last occurrence of the maximum
RECURSIVE ArgMaxLastFrom(_, _, _)
ArgMaxLastFrom(sums, i, best) ==
    IF i > Len(sums) THEN best
    ELSE ArgMaxLastFrom(sums, i + 1, IF sums[i] >= sums[best] THEN i ELSE best)

np_argmax_last(sums) == ArgMaxLastFrom(sums, 2, 1) - 1

\* np.argmax: the 0-based index of the first occurrence of the maximum
RECURSIVE ArgMaxFrom(_, _, _)
ArgMaxFrom(sums, i, best) ==
    IF i > Len(sums) THEN best
    ELSE ArgMaxFrom(sums, i + 1, IF sums[i] > sums[best] THEN i ELSE best)

np_argmax(sums) == ArgMaxFrom(sums, 2, 1) - 1

\* np.linspace(start, stop, num, dtype=int) for 0 <= start <= stop:
\*   step = (stop - start) / (num - 1);  y = arange(num) * step + start;
\*   y[-1] = stop;  floor;  all in binary64.
np_linspace_int(start, stop, num) ==
    LET div   == num - 1
        delta == stop - start
        step  == FDivInt(delta, div)
    IN  [i \in 1..num |->
            IF div = 0 \/ delta = 0 THEN start
            ELSE IF i = num THEN stop
            ELSE FFloor(FAddInt(FMulInt(step, i - 1), start))]

\* a variant that keeps the duplicates
np_unique_keepdup(a) == a

\* np.unique: the sorted sequence of the distinct values
RECURSIVE SortedSeqOf(_)
SortedSeqOf(S) ==
    IF S = {} THEN <<>>
    ELSE LET m == CHOOSE x \in S : \A y \in S : x <= y
         IN  <<m>> \o SortedSeqOf(S \ {m})

np_unique(a) == SortedSeqOf({a[i] : i \in 1..Len(a)})

(***************************************************************************)
(* The csv module, as update_csv uses it.  Text is a sequence of           *)
(* characters; a run of ordinary characters is kept as one symbol.         *)
(***************************************************************************)
Quote == "\""
Delim == ","
CR == "\r"
LF == "\n"

RECURSIVE csv_double_quotes(_)
csv_double_quotes(f) ==
    IF f = <<>> THEN <<>>
    ELSE (IF Head(f) = Quote THEN <<Quote, Quote>> ELSE <<Head(f)>>)
         \o csv_double_quotes(Tail(f))

\* csv.writer, QUOTE_MINIMAL: a field holding the delimiter, the quote
\* character or a line terminator is quoted, its quotes doubled
csv_quote_field(f) ==
    IF \E i \in 1..Len(f) : f[i] \in {Delim, Quote, CR, LF}
    THEN <<Quote>> \o csv_double_quotes(f) \o <<Quote>>
    ELSE f

RECURSIVE csv_join(_)
csv_join(fields) ==
    IF fields = <<>> THEN <<>>
    ELSE IF Len(fields) = 1 THEN csv_quote_field(fields[1])
    ELSE csv_quote_field(Head(fields)) \o <<Delim>> \o csv_join(Tail(fields))

\* csv.writer.writerow, lineterminator "\r\n"
csv_writerow(fields) == csv_join(fields) \o <<CR, LF>>

\* csv.reader over a file opened with newline="": the state machine of the
\* parser; st is one of START_RECORD, START_FIELD, IN_FIELD, IN_QUOTED_FIELD,
\* QUOTE_IN_QUOTED_FIELD.  A line end seen outside quotes ends the record.
RECURSIVE csv_parse(_, _, _, _, _, _)
csv_parse(text, i, st, field, row, rows) ==
    IF i > Len(text) THEN
        IF st = "START_RECORD" THEN rows
        ELSE Append(rows, Append(row, field))
    ELSE
    LET c == text[i]
        nl == c \in {CR, LF}
    IN  CASE st = "START_RECORD" /\ nl ->
                csv_parse(text, i + 1, "START_RECORD", <<>>, <<>>, rows)
          [] st \in {"START_RECORD", "START_FIELD"} /\ ~nl /\ c = Quote ->
                csv_parse(text, i + 1, "IN_QUOTED_FIELD", <<>>, row, rows)
          [] st \in {"START_RECORD", "START_FIELD"} /\ ~nl /\ c = Delim ->
                csv_parse(text, i + 1, "START_FIELD", <<>>, Append(row, <<>>), rows)
          [] st \in {"START_RECORD", "START_FIELD"} /\ ~nl /\ c \notin {Quote, Delim} ->
                csv_parse(text, i + 1, "IN_FIELD", <<c>>, row, rows)
          [] st \in {"START_FIELD", "IN_FIELD", "QUOTE_IN_QUOTED_FIELD"} /\ nl ->
                csv_parse(text, i + 1, "START_RECORD", <<>>, <<>>,
                          Append(rows, Append(row, field)))
          [] st \in {"IN_FIELD", "QUOTE_IN_QUOTED_FIELD"} /\ ~nl /\ c = Delim ->
                csv_parse(text, i + 1, "START_FIELD", <<>>, Append(row, field), rows)
          [] st = "IN_FIELD" /\ ~nl /\ c # Delim ->
                csv_parse(text, i + 1, "IN_FIELD", Append(field, c), row, rows)
          [] st = "IN_QUOTED_FIELD" /\ c = Quote ->
                csv_parse(text, i + 1, "QUOTE_IN_QUOTED_FIELD", field, row, rows)
          [] st = "IN_QUOTED_FIELD" /\ c # Quote ->
                csv_parse(text, i + 1, "IN_QUOTED_FIELD", Append(field, c), row, rows)
          [] st = "QUOTE_IN_QUOTED_FIELD" /\ c = Quote ->
                csv_parse(text, i + 1, "IN_QUOTED_FIELD", Append(field, Quote), row, rows)
          [] st = "QUOTE_IN_QUOTED_FIELD" /\ ~nl /\ c \notin {Quote, Delim} ->
                csv_parse(text, i + 1, "IN_FIELD", Append(field, c), row, rows)

csv_reader(text) == csv_parse(text, 1, "START_RECORD", <<>>, <<>>, <<>>)

\* the value of column name in a row read under the header fieldnames:
\* None when the row is too short
NoneValue == <<"None">>

DictGet(fieldnames, row, name) ==
    IF \E k \in 1..Len(fieldnames) : fieldnames[k] = name /\ k <= Len(row)
    THEN row[CHOOSE k \in 1..Len(fieldnames) :
                 /\ fieldnames[k] = name /\ k <= Len(row)
                 /\ \A j \in (k + 1)..Len(fieldnames) :
                        ~(fieldnames[j] = name /\ j <= Len(row))]
    ELSE NoneValue

\* csv.DictReader: the first row names the columns, every later row is a
\* dict of them
csv_DictReader(text) ==
    LET all == csv_reader(text)
    IN  IF all = <<>> THEN <<>>
        ELSE [k \in 1..(Len(all) - 1) |->
                 [filename |-> DictGet(all[1], all[k + 1], <<"filename">>),
                  status   |-> DictGet(all[1], all[k + 1], <<"status">>),
                  notes    |-> DictGet(all[1], all[k + 1], <<"notes">>)]]

RECURSIVE csv_writerows(_)
csv_writerows(rows) ==
    IF rows = <<>> THEN <<>>
    ELSE csv_writerow(<<Head(rows).filename, Head(rows).status, Head(rows).notes>>)
         \o csv_writerows(Tail(rows))

\* csv.DictWriter(fieldnames=["filename", "status", "notes"]):
\* writeheader, then writerows
csv_DictWriter(rows) ==
    csv_writerow(<< <<"filename">>, <<"status">>, <<"notes">> >>) \o csv_writerows(rows)

(***************************************************************************)
(* The review ledger: qc_update -> update_csv.                             *)
(***************************************************************************)
\* the first row whose filename is the key, 0 when there is none
FirstMatch(rows, filename) ==
    IF \E k \in 1..Len(rows) : rows[k].filename = filename
    THEN CHOOSE k \in 1..Len(rows) :
            /\ rows[k].filename = filename
            /\ \A j \in 1..(k - 1) : rows[j].filename # filename
    ELSE 0

\* a variant that never finds the row and always appends
update_rows_append(rows, filename, status) ==
    Append(rows, [filename |-> filename, status |-> status.status,
                  notes |-> status.notes])

\* update_csv, lines 101-119: update the first matching row or append one;
\* status is the dict {"status": ..., "notes": ...} that qc_update passes
update_rows(rows, filename, status) ==
    LET k == FirstMatch(rows, filename)
    IN  IF k # 0
        THEN [rows EXCEPT ![k].notes = status.notes, ![k].status = status.status]
        ELSE Append(rows, [filename |-> filename, status |-> status.status,
                           notes |-> status.notes])

\* update_csv: read the file if it exists, update, write the whole file
update_csv(exists, text, filename, status) ==
    LET rows == IF exists THEN csv_DictReader(text) ELSE <<>>
    IN  csv_DictWriter(update_rows(rows, filename, status))

\* What the model's clients send.  <<>> is an empty or absent value.
Filenames == {<<"a.png">>, <<"b.png">>}
Statuses  == {<<"GOOD">>, <<"BAD">>, <<"MAYBE">>}
Notes     == {<<>>, <<"x">>, <<"x", Delim, Quote>>}

NoEntry == [status |-> <<>>, notes |-> <<>>]

LedgerIdle ==
    /\ csv_exists = FALSE
    /\ csv_text = <<>>
    /\ seen_order = <<>>
    /\ last_upsert = [f \in Filenames |-> NoEntry]
    /\ http_status = 0
    /\ request = <<>>
    /\ csv_written = FALSE
    /\ rq = <<>>
    /\ rq_events = <<>>

\* The ledger at start: no file, or a duplicate-free file that earlier runs
\* of the server wrote.
InitLedger ==
    /\ \E rows \in {<<>>} \cup {<<[filename |-> f, status |-> <<"GOOD">>, notes |-> n]>> :
                                  f \in Filenames, n \in Notes} :
       \E ex \in BOOLEAN :
          /\ (rows # <<>> => ex)
          /\ csv_exists = ex
          /\ csv_text = IF ex THEN csv_DictWriter(rows) ELSE <<>>
          /\ seen_order = [k \in 1..Len(rows) |-> rows[k].filename]
          /\ last_upsert = [f \in Filenames |->
                IF \E k \in 1..Len(rows) : rows[k].filename = f
                THEN [status |-> <<"GOOD">>, notes |-> rows[1].notes]
                ELSE NoEntry]
    /\ http_status = 0
    /\ request = <<>>
    /\ csv_written = FALSE
    /\ rq = <<>>
    /\ rq_events = <<>>
    /\ SlicesIdle
    /\ GroupIdle
    /\ PipelineIdle

\* request.json: a JSON object with any of the keys filename, status and
\* notes; a value may be the empty string
Requests ==
    LET keys == {"filename", "status", "notes"}
        values(k) == IF k = "filename" THEN Filenames \cup {<<>>}
                     ELSE IF k = "status" THEN Statuses \cup {<<>>}
                     ELSE Notes
    IN  { d \in UNION { [S -> Filenames \cup Statuses \cup Notes] : S \in SUBSET keys } :
              \A k \in DOMAIN d : d[k] \in values(k) }

\* data.get(key, default)
dict_get(d, key, default) == IF key \in DOMAIN d THEN d[key] ELSE default

\* a variant that asks for the filename only
qc_update_missing_filename(d) ==
    dict_get(d, "filename", NoneValue) \in {NoneValue, <<>>}

\* qc_update, lines 55-58: not filename or not status, each None or ""
qc_update_missing(d) ==
    \/ dict_get(d, "filename", NoneValue) \in {NoneValue, <<>>}
    \/ dict_get(d, "status", NoneValue) \in {NoneValue, <<>>}

\* qc_update with a filename and a status: the ledger is updated, 200
QcUpdate ==
    \E d \in Requests :
        LET filename == dict_get(d, "filename", NoneValue)
            status   == dict_get(d, "status", NoneValue)
            notes    == dict_get(d, "notes", <<>>)
        IN  /\ ~qc_update_missing(d)
            /\ request' = d
            /\ csv_text' = update_csv(csv_exists, csv_text, filename,
                                      [status |-> status, notes |-> notes])
            /\ csv_exists' = TRUE
            /\ csv_written' = TRUE
            /\ http_status' = 200
            /\ seen_order' = IF \E k \in 1..Len(seen_order) : seen_order[k] = filename
                             THEN seen_order ELSE Append(seen_order, filename)
            /\ last_upsert' = [last_upsert EXCEPT ![filename] =
                                   [status |-> status, notes |-> notes]]
            /\ UNCHANGED <<rq, rq_events, slVars, grVars, ppVars>>

\* qc_update without a filename or without a status: 400, nothing is done
QcUpdateMissing ==
    \E d \in Requests :
        /\ qc_update_missing(d)
        /\ request' = d
        /\ csv_written' = FALSE
        /\ http_status' = 400
        /\ UNCHANGED <<csv_exists, csv_text, seen_order, last_upsert, rq, rq_events,
                       slVars, grVars, ppVars>>

NextLedger == QcUpdate \/ QcUpdateMissing

SpecLedger == InitLedger /\ [][NextLedger]_vars

\* C1: from an empty or duplicate-free ledger, after any sequence of upserts
\* the ledger holds exactly one entry per key ever upserted, with the status
\* and notes of the key's last upsert, in order of first appearance (other
\* entries keep value and place, a new key goes last).
C1_Upsert ==
    LET rows == csv_DictReader(csv_text)
    IN  /\ (csv_exists => csv_text = csv_DictWriter(rows))
        /\ Len(rows) = Len(seen_order)
        /\ \A k \in 1..Len(rows) :
              /\ rows[k].filename = seen_order[k]
              /\ rows[k].status = last_upsert[seen_order[k]].status
              /\ rows[k].notes = last_upsert[seen_order[k]].notes
        /\ \A j, k \in 1..Len(rows) : j # k => rows[j].filename # rows[k].filename

\* C1 witness: two keys, the first upserted again after the second was
\* added, with notes that need quoting.
C1_Witness ==
    /\ http_status = 200
    /\ seen_order = << <<"a.png">>, <<"b.png">> >>
    /\ last_upsert[<<"a.png">>] = [status |-> <<"BAD">>, notes |-> <<"x", Delim, Quote>>]
    /\ last_upsert[<<"b.png">>] = [status |-> <<"MAYBE">>, notes |-> <<>>]
    /\ Len(csv_DictReader(csv_text)) = 2

ReviewStatuses == {<<"GOOD">>, <<"BAD">>, <<"UNCLEAR">>, <<"UNKNOWN">>}

\* C13: the status of every entry of the ledger is GOOD, BAD, UNCLEAR or
\* UNKNOWN, whatever requests were served
C13_StatusDomain ==
    \A k \in 1..Len(csv_DictReader(csv_text)) :
        csv_DictReader(csv_text)[k].status \in ReviewStatuses

(***************************************************************************)
(* Two qc_update requests served at the same time: update_csv holds no     *)
(* lock between reading the file and rewriting it.                         *)
(***************************************************************************)
\* a variant that does not read the rows the file already holds
update_csv_read_nothing(exists, text) == <<>>

\* update_csv, lines 92-99: the rows read
update_csv_read(exists, text) == IF exists THEN csv_DictReader(text) ELSE <<>>

\* update_csv, lines 101-124: the file written from the rows read
update_csv_write(rows, filename, status) ==
    csv_DictWriter(update_rows(rows, filename, status))

InitRace ==
    /\ \E rows \in {<<>>} \cup {<<[filename |-> f, status |-> <<"GOOD">>, notes |-> <<>>]>> :
                                  f \in Filenames} :
       \E ex \in BOOLEAN :
          /\ (rows # <<>> => ex)
          /\ csv_exists = ex
          /\ csv_text = IF ex THEN csv_DictWriter(rows) ELSE <<>>
    /\ \E s1, s2 \in Statuses : \E n1, n2 \in Notes :
          rq = << [pc |-> "received", filename |-> <<"a.png">>, status |-> s1,
                   notes |-> n1, rows |-> <<>>],
                  [pc |-> "received", filename |-> <<"b.png">>, status |-> s2,
                   notes |-> n2, rows |-> <<>>] >>
    /\ rq_events = <<>>
    /\ seen_order = <<>>
    /\ last_upsert = [f \in Filenames |-> NoEntry]
    /\ http_status = 0
    /\ request = <<>>
    /\ csv_written = FALSE
    /\ SlicesIdle
    /\ GroupIdle
    /\ PipelineIdle

\* a request reads the whole ledger
RaceRead ==
    \E r \in 1..Len(rq) :
        /\ rq[r].pc = "received"
        /\ rq' = [rq EXCEPT ![r].pc = "read",
                            ![r].rows = update_csv_read(csv_exists, csv_text)]
        /\ rq_events' = Append(rq_events, <<r, "read">>)
        /\ UNCHANGED <<csv_exists, csv_text, seen_order, last_upsert, http_status,
                       request, csv_written, slVars, grVars, ppVars>>

\* a request rewrites the whole ledger from what it read, and answers 200
RaceWrite ==
    \E r \in 1..Len(rq) :
        /\ rq[r].pc = "read"
        /\ csv_text' = update_csv_write(rq[r].rows, rq[r].filename,
                                        [status |-> rq[r].status, notes |-> rq[r].notes])
        /\ csv_exists' = TRUE
        /\ http_status' = 200
        /\ rq' = [rq EXCEPT ![r].pc = "responded"]
        /\ rq_events' = Append(rq_events, <<r, "write">>)
        /\ UNCHANGED <<seen_order, last_upsert, request, csv_written,
                       slVars, grVars, ppVars>>

NextRace == RaceRead \/ RaceWrite

SpecRace == InitRace /\ [][NextRace]_vars

EventAt(r, step) == CHOOSE k \in 1..Len(rq_events) : rq_events[k] = <<r, step>>
BothResponded == Len(rq) = 2 /\ \A r \in 1..2 : rq[r].pc = "responded"
LastWriter == IF EventAt(1, "write") > EventAt(2, "write") THEN 1 ELSE 2

\* the ledger holds the update of request r: one row for its key, with its
\* status and notes
UpdatePresent(r) ==
    LET rows == csv_DictReader(csv_text)
    IN  /\ \E k \in 1..Len(rows) :
              /\ rows[k].filename = rq[r].filename
              /\ rows[k].status = rq[r].status
              /\ rows[k].notes = rq[r].notes
        /\ \A j, k \in 1..Len(rows) :
              rows[j].filename = rq[r].filename /\ rows[k].filename = rq[r].filename
                  => j = k

KeyAbsent(r) ==
    \A k \in 1..Len(csv_DictReader(csv_text)) :
        csv_DictReader(csv_text)[k].filename # rq[r].filename

\* C16: when two requests for different keys have both answered success, the
\* update of the request that wrote last is in the ledger, and the update of
\* the other is in the ledger exactly when the last writer read after the
\* other had written; otherwise it is lost, and its key, when new, is absent
C16_LostUpdate ==
    BothResponded =>
        LET w == LastWriter
            o == 3 - w
            saw == EventAt(w, "read") > EventAt(o, "write")
        IN  /\ UpdatePresent(w)
            /\ saw => UpdatePresent(o)
            /\ ~saw /\ FirstMatch(rq[o].rows, rq[o].filename) = 0 => KeyAbsent(o)
            /\ ~saw /\ FirstMatch(rq[o].rows, rq[o].filename) # 0
                  => \E k \in 1..Len(csv_DictReader(csv_text)) :
                        /\ csv_DictReader(csv_text)[k].filename = rq[o].filename
                        /\ csv_DictReader(csv_text)[k].status = <<"GOOD">>
                        /\ csv_DictReader(csv_text)[k].notes = <<>>

\* both requests have answered success and the update of one is missing
C16_Witness ==
    /\ BothResponded
    /\ http_status = 200
    /\ \E r \in 1..2 : KeyAbsent(r)
    /\ \E r \in 1..2 : UpdatePresent(r)

(***************************************************************************)
(* Slice-of-interest selection.                                            *)
(***************************************************************************)
\* struct_pipeline_initial.find_slices_of_interest
find_slices_of_interest(d, n) ==
    LET slice_sums    == np_sum_axis01(d)
        best_idx      == np_argmax(slice_sums)
        margin        == n * 5
        zsize         == Len(d)
        start_idx     == Max(0, best_idx - margin)
        end_idx       == Min(zsize - 1, best_idx + margin)
        slice_indices == np_linspace_int(start_idx, end_idx, n)
    IN  np_unique(slice_indices)

\* a variant that returns the indices as np.linspace gives them
find_slices_of_interest_final_raw(d, n) ==
    LET slice_sums    == np_sum_axis01(d)
        best_idx      == np_argmax(slice_sums)
        margin        == n * 5
        zsize         == Len(d)
        start_idx     == Max(0, best_idx - margin)
        end_idx       == Min(zsize - 1, best_idx + margin)
    IN  np_linspace_int(start_idx, end_idx, n)

\* struct_pipeline_final.find_slices_of_interest
find_slices_of_interest_final(d, n) ==
    LET slice_sums    == np_sum_axis01(d)
        best_idx      == np_argmax(slice_sums)
        margin        == n * 5
        zsize         == Len(d)
        start_idx     == Max(0, best_idx - margin)
        end_idx       == Min(zsize - 1, best_idx + margin)
        slice_indices == np_linspace_int(start_idx, end_idx, n)
    IN  np_unique(slice_indices)

\* The volumes the model draws: 2 x 2 slices, all dark but for one or two
\* slices at most MaxGap apart.
DarkSlice    == << <<0, 0>>, <<0, 0>> >>
MidSlice     == << <<1, 0>>, <<0, 0>> >>
BrightSlice  == << <<1, 0>>, <<0, 1>> >>
BrightSlice2 == << <<0, 2>>, <<0, 0>> >>

Volume(z, p, sp, q, sq) ==
    [k \in 1..z |-> IF k = p THEN sp ELSE IF k = q THEN sq ELSE DarkSlice]

InitSlices ==
    /\ \E z \in 1..MaxZ : \E p \in 1..z : \E q \in p..Min(z, p + MaxGap) :
       \E sp \in {MidSlice, BrightSlice} : \E sq \in {MidSlice, BrightSlice2} :
          data = Volume(z, p, sp, q, sq)
    /\ num_slices \in 1..MaxN
    /\ res_initial = <<>>
    /\ res_final = <<>>
    /\ drawn_initial = <<>>
    /\ drawn_final = <<>>
    /\ sl_pc = "loaded"
    /\ LedgerIdle
    /\ GroupIdle
    /\ PipelineIdle

\* the names struct_pipeline_final.py defines or imports
FinalGlobals ==
    { "ensure_docker_image", "process_skull_stripping", "find_slices_of_interest",
      "plot_slices", "analyze_nifti", "create_density_plot_and_save",
      "process_scan_final", "traverse_bids_final", "load_accepted_csv",
      "extract_sub_ses", "main" }

\* plot_slices: the axes of the nrows x ncols grid, in order, show the slice
\* indices while there are any; the other axes and the other indices are
\* left out
plot_slices(slice_indices, nrows, ncols) ==
    [i \in 1..Min(nrows * ncols, Len(slice_indices)) |-> slice_indices[i]]

\* process_scan_initial, steps 2 and 3: select the slices of the loaded
\* volume and draw them on a grid of 2 rows and 5 columns
SelectInitial ==
    /\ sl_pc = "loaded"
    /\ res_initial' = find_slices_of_interest(data, num_slices)
    /\ drawn_initial' = plot_slices(res_initial', 2, 5)
    /\ sl_pc' = "initial"
    /\ UNCHANGED <<data, num_slices, res_final, drawn_final, ldVars, grVars, ppVars>>

\* process_scan_final, steps 2 and 3: select the slices of the same volume;
\* the lookup of ensure_results_dir comes before both calls of plot_slices
SelectFinal ==
    /\ sl_pc = "initial"
    /\ res_final' = find_slices_of_interest_final(data, num_slices)
    /\ drawn_final' = IF "ensure_results_dir" \in FinalGlobals
                      THEN plot_slices(res_final', 2, 5)
                      ELSE <<>>
    /\ sl_pc' = "final"
    /\ UNCHANGED <<data, num_slices, res_initial, drawn_initial, ldVars, grVars, ppVars>>

NextSlices == SelectInitial \/ SelectFinal

SpecSlices == InitSlices /\ [][NextSlices]_vars

(***************************************************************************)
(* Claims about slice selection (SpecSlices).                              *)
(***************************************************************************)
StrictlyAscending(s) == \A i \in 1..(Len(s) - 1) : s[i] < s[i + 1]

SliceContract(res) ==
    /\ StrictlyAscending(res)
    /\ \A i \in 1..Len(res) : res[i] \in 0..(Len(data) - 1)
    /\ Len(res) >= 1
    /\ Len(res) <= num_slices
    /\ (Len(data) = 1 => res = <<0>>)

\* C2: for every N >= 1 and z_size >= 1 the result of either copy of
\* find_slices_of_interest is strictly ascending, within [0, z_size-1], of
\* length 1..N, and exactly [0] when z_size = 1.
C2_SliceContract ==
    /\ (sl_pc \in {"initial", "final"} => SliceContract(res_initial))
    /\ (sl_pc = "final" => SliceContract(res_final))

\* C2 witness: a selection that collapsed duplicates (fewer than N indices,
\* more than one) in both copies.
C2_Witness ==
    /\ sl_pc = "final"
    /\ Len(res_final) > 1
    /\ Len(res_final) < num_slices
    /\ Len(res_initial) < num_slices

\* The selection as the specification words it, in exact arithmetic.
SliceTotal(slice) == SumSeq([x \in 1..Len(slice) |-> SumSeq(slice[x])])

\* the smallest z-index whose slice total is maximal
BestSlice(d) ==
    LET bright == {z \in 1..Len(d) : d[z] # DarkSlice}
        top    == IF bright = {} THEN 0
                  ELSE CHOOSE t \in {SliceTotal(d[z]) : z \in bright} :
                           \A z \in bright : SliceTotal(d[z]) <= t
        at     == IF top = 0 THEN 1..Len(d)
                  ELSE {z \in bright : SliceTotal(d[z]) = top}
    IN  (CHOOSE z \in at : \A y \in at : z <= y) - 1

\* the N values floor(lo + i*(hi-lo)/(N-1)), i = 0..N-1, indexed 1..N
ExactValues(d, n) ==
    LET best == BestSlice(d)
        lo   == Max(0, best - 5 * n)
        hi   == Min(Len(d) - 1, best + 5 * n)
    IN  [i \in 1..n |->
            IF n = 1 THEN lo
            ELSE (lo * (n - 1) + (i - 1) * (hi - lo)) \div (n - 1)]

ExactSlices(d, n) ==
    LET ev == ExactValues(d, n)
    IN  SortedSeqOf({ev[i] : i \in 1..n})

\* C3 as stated: the result is the ascending duplicate-free sequence of the
\* values floor(lo + i*(hi-lo)/(N-1)), and both copies agree.
C3_Original ==
    /\ (sl_pc \in {"initial", "final"} =>
            res_initial = ExactSlices(data, num_slices))
    /\ (sl_pc = "final" => res_final = res_initial)

\* C3 amended: the equality holds for N <= 14; for any N the values are those
\* of the binary64 evaluation i*((hi-lo)/(N-1)) + lo, each either the exact
\* floor or one below it, and both copies agree.
C3_Amended ==
    /\ (sl_pc \in {"initial", "final"} /\ num_slices <= 14 =>
            res_initial = ExactSlices(data, num_slices))
    /\ (sl_pc \in {"initial", "final"} =>
            LET ev    == ExactValues(data, num_slices)
                exact == {ev[i] : i \in 1..num_slices}
            IN  \A k \in 1..Len(res_initial) :
                    res_initial[k] \in exact \/ res_initial[k] + 1 \in exact)
    /\ (sl_pc = "final" => res_final = res_initial)

\* C3 witness: a tie between two slices, a window clamped at neither end of
\* the volume's low side, N = 3.
C3_Witness ==
    /\ sl_pc = "final"
    /\ num_slices = 3
    /\ Len(res_final) = 3
    /\ res_final[1] > 0
    /\ \E z1, z2 \in 1..Len(data) :
          z1 < z2 /\ SliceTotal(data[z1]) = SliceTotal(data[z2])
                  /\ SliceTotal(data[z1]) > 0

(***************************************************************************)
(* Filenames.  A name is a sequence of characters; the literals the        *)
(* patterns look for ("sub-", "ses-", "run-", "T1w", ".nii", ...) and      *)
(* other runs of ordinary characters are kept as one symbol each, "_" and  *)
(* the digits are always symbols of their own.                             *)
(***************************************************************************)
Digits == {"0", "1", "2", "3", "4", "5", "6", "7", "8", "9"}

DigitValue(c) ==
    CASE c = "0" -> 0 [] c = "1" -> 1 [] c = "2" -> 2 [] c = "3" -> 3
      [] c = "4" -> 4 [] c = "5" -> 5 [] c = "6" -> 6 [] c = "7" -> 7
      [] c = "8" -> 8 [] c = "9" -> 9

\* str.lower() of one symbol, for re.IGNORECASE
Lower(c) ==
    CASE c = "SUB-" -> "sub-" [] c = "SES-" -> "ses-" [] c = "RUN-" -> "run-"
      [] OTHER -> c

\* s[i:].startswith(p)
StartsWithAt(s, i, p) ==
    i + Len(p) - 1 <= Len(s) /\ SubSeq(s, i, i + Len(p) - 1) = p

\* p in s
Contains(s, p) == \E i \in 1..(Len(s) + 1) : StartsWithAt(s, i, p)

\* s.endswith(p)
EndsWith(s, p) == Len(p) <= Len(s) /\ SubSeq(s, Len(s) - Len(p) + 1, Len(s)) = p

\* s.replace(old, ""), old one symbol
str_remove(s, old) == SelectSeq(s, LAMBDA c : c # old)

\* the last index of the run [^_]* that starts at i (i - 1 when it is empty)
RECURSIVE TokenEnd(_, _)
TokenEnd(s, i) ==
    IF i > Len(s) \/ s[i] = "_" THEN i - 1 ELSE TokenEnd(s, i + 1)

\* the last index of the run \d* that starts at i (i - 1 when it is empty)
RECURSIVE DigitsEnd(_, _)
DigitsEnd(s, i) ==
    IF i > Len(s) \/ s[i] \notin Digits THEN i - 1 ELSE DigitsEnd(s, i + 1)

\* int() of a sequence of digits
RECURSIVE IntOfDigits(_)
IntOfDigits(ds) ==
    IF ds = <<>> THEN 0
    ELSE 10 * IntOfDigits(SubSeq(ds, 1, Len(ds) - 1)) + DigitValue(ds[Len(ds)])

\* parse_int: re.search(r'(\d+)', s), the first run of digits, else 0
parse_int(s) ==
    IF \A i \in 1..Len(s) : s[i] \notin Digits THEN 0
    ELSE LET b == CHOOSE i \in 1..Len(s) :
                      s[i] \in Digits /\ \A j \in 1..(i - 1) : s[j] \notin Digits
         IN  IntOfDigits(SubSeq(s, b, DigitsEnd(s, b)))

NoMatch == [matched |-> FALSE, g1 |-> <<>>, g2 |-> <<>>, g3 |-> <<>>]

\* re.compile(r'(sub-[^_]+)(?:_(ses-[^_]+))?(?:_(run-[^_]+))?', re.IGNORECASE)
\* matched at position i; an absent group is <<>>
ServerMatchAt(s, i) ==
    LET e1     == TokenEnd(s, i + 1)
        hasSes == /\ e1 + 2 <= Len(s) /\ s[e1 + 1] = "_" /\ Lower(s[e1 + 2]) = "ses-"
                  /\ TokenEnd(s, e1 + 3) >= e1 + 3
        e2     == IF hasSes THEN TokenEnd(s, e1 + 3) ELSE e1
        hasRun == /\ e2 + 2 <= Len(s) /\ s[e2 + 1] = "_" /\ Lower(s[e2 + 2]) = "run-"
                  /\ TokenEnd(s, e2 + 3) >= e2 + 3
        e3     == IF hasRun THEN TokenEnd(s, e2 + 3) ELSE e2
    IN  [matched |-> TRUE,
         g1 |-> SubSeq(s, i, e1),
         g2 |-> IF hasSes THEN SubSeq(s, e1 + 2, e2) ELSE <<>>,
         g3 |-> IF hasRun THEN SubSeq(s, e2 + 2, e3) ELSE <<>>]

ServerMatches(s, i) == Lower(s[i]) = "sub-" /\ TokenEnd(s, i + 1) >= i + 1

\* pattern.search(fname) of generate_in_memory_pages: the leftmost match
server_pattern_search(s) ==
    IF \E i \in 1..Len(s) : ServerMatches(s, i)
    THEN ServerMatchAt(s, CHOOSE i \in 1..Len(s) :
            ServerMatches(s, i) /\ \A j \in 1..(i - 1) : ~ServerMatches(s, j))
    ELSE NoMatch

\* re.compile(r'(sub-\d+)_?(ses-\d+)?') matched at position i
DigitMatchAt(s, i) ==
    LET e1     == DigitsEnd(s, i + 1)
        a      == IF e1 + 1 <= Len(s) /\ s[e1 + 1] = "_" THEN e1 + 2 ELSE e1 + 1
        hasSes == a <= Len(s) /\ s[a] = "ses-" /\ DigitsEnd(s, a + 1) >= a + 1
    IN  [matched |-> TRUE,
         g1 |-> SubSeq(s, i, e1),
         g2 |-> IF hasSes THEN SubSeq(s, a, DigitsEnd(s, a + 1)) ELSE <<>>,
         g3 |-> <<>>]

DigitMatches(s, i) == s[i] = "sub-" /\ DigitsEnd(s, i + 1) >= i + 1

\* pattern.search(basename) of generate_html_reports and extract_sub_ses
digit_pattern_search(s) ==
    IF \E i \in 1..Len(s) : DigitMatches(s, i)
    THEN DigitMatchAt(s, CHOOSE i \in 1..Len(s) :
            DigitMatches(s, i) /\ \A j \in 1..(i - 1) : ~DigitMatches(s, j))
    ELSE NoMatch

DefaultSession == <<"ses-", "0", "1">>

\* a variant that never reads the run segment
server_scan_key_norun(fname) ==
    LET m == server_pattern_search(fname)
    IN  <<m.g1, IF m.g2 # <<>> THEN m.g2 ELSE DefaultSession, <<>>>>

\* generate_in_memory_pages, lines 179-183: the key of a matched filename
server_scan_key(fname) ==
    LET m == server_pattern_search(fname)
    IN  <<m.g1,
          IF m.g2 # <<>> THEN m.g2 ELSE DefaultSession,
          IF m.g3 # <<>> THEN m.g3 ELSE <<>>>>

\* generate_html_reports, lines 60-63: the key of a matched filename
static_scan_key(fname) ==
    LET m == digit_pattern_search(fname)
    IN  <<m.g1, IF m.g2 # <<>> THEN m.g2 ELSE DefaultSession>>

(***************************************************************************)
(* Artifact grouping: the review server (generate_in_memory_pages) and the *)
(* static generator (generate_html_reports) walk the same results tree.    *)
(***************************************************************************)
SufOrig  == <<"_", "original", "_", "slices.png">>
SufStrip == <<"_", "skullstripped", "_", "slices.png">>
SufDens  == <<"_", "density.svg">>
SufStats == <<"_", "stats.csv">>
VolumeName == <<"T1w", ".nii", ".gz">>

\* os.path.join(dirpath, fname); dir 0 is no path (None)
Path(dir, fname) == [dir |-> dir, name |-> fname]
NonePath == [dir |-> 0, name |-> <<>>]

KeyIndex(map, key) ==
    IF \E k \in 1..Len(map) : map[k].key = key
    THEN CHOOSE k \in 1..Len(map) : map[k].key = key
    ELSE 0

\* a variant that skips the files that end with none of the four suffixes
server_visit_file_artifacts(map, dir, fname) ==
    IF ~(\/ EndsWith(fname, SufOrig) \/ EndsWith(fname, SufStrip)
         \/ EndsWith(fname, SufDens) \/ EndsWith(fname, SufStats))
    THEN map
    ELSE IF ~server_pattern_search(fname).matched THEN map
    ELSE LET key == server_scan_key(fname)
             m1  == IF KeyIndex(map, key) = 0
                    THEN Append(map, [key |-> key, orig |-> NonePath, strip |-> NonePath,
                                      dens |-> NonePath, stats |-> NonePath])
                    ELSE map
             k   == KeyIndex(m1, key)
         IN  IF EndsWith(fname, SufOrig) THEN [m1 EXCEPT ![k].orig = Path(dir, fname)]
             ELSE IF EndsWith(fname, SufStrip) THEN [m1 EXCEPT ![k].strip = Path(dir, fname)]
             ELSE IF EndsWith(fname, SufDens) THEN [m1 EXCEPT ![k].dens = Path(dir, fname)]
             ELSE [m1 EXCEPT ![k].stats = Path(dir, fname)]

\* generate_in_memory_pages, lines 163-200: the loop body for one file
server_visit_file(map, dir, fname) ==
    IF ~(\/ Contains(fname, SufOrig) \/ Contains(fname, SufStrip)
         \/ Contains(fname, SufDens) \/ Contains(fname, SufStats)
         \/ Contains(fname, VolumeName))
    THEN map
    ELSE IF ~server_pattern_search(fname).matched THEN map
    ELSE LET key == server_scan_key(fname)
             m1  == IF KeyIndex(map, key) = 0
                    THEN Append(map, [key |-> key, orig |-> NonePath, strip |-> NonePath,
                                      dens |-> NonePath, stats |-> NonePath])
                    ELSE map
             k   == KeyIndex(m1, key)
         IN  IF EndsWith(fname, SufOrig) THEN [m1 EXCEPT ![k].orig = Path(dir, fname)]
             ELSE IF EndsWith(fname, SufStrip) THEN [m1 EXCEPT ![k].strip = Path(dir, fname)]
             ELSE IF EndsWith(fname, SufDens) THEN [m1 EXCEPT ![k].dens = Path(dir, fname)]
             ELSE IF EndsWith(fname, SufStats) THEN [m1 EXCEPT ![k].stats = Path(dir, fname)]
             ELSE m1

\* generate_in_memory_pages, lines 161-162: the files of one directory
RECURSIVE server_walk_dir(_, _, _)
server_walk_dir(map, dir, files) ==
    IF files = <<>> THEN map
    ELSE server_walk_dir(server_visit_file(map, dir, Head(files)), dir, Tail(files))

\* generate_html_reports, lines 44-53: the last file of the directory with
\* the suffix (each later one overwrites the variable), None without one
RECURSIVE LastWithSuffix(_, _, _)
LastWithSuffix(dir, files, suf) ==
    IF files = <<>> THEN NonePath
    ELSE IF EndsWith(files[Len(files)], suf) THEN Path(dir, files[Len(files)])
    ELSE LastWithSuffix(dir, SubSeq(files, 1, Len(files) - 1), suf)

\* generate_html_reports, lines 37-80: the loop body for one directory
static_walk_dir(map, dir, files) ==
    LET orig_file  == LastWithSuffix(dir, files, SufOrig)
        strip_file == LastWithSuffix(dir, files, SufStrip)
        dens_file  == LastWithSuffix(dir, files, SufDens)
        stats_file == LastWithSuffix(dir, files, SufStats)
        candidate_file ==
            IF orig_file # NonePath THEN orig_file
            ELSE IF strip_file # NonePath THEN strip_file
            ELSE IF dens_file # NonePath THEN dens_file
            ELSE stats_file
    IN  IF candidate_file = NonePath THEN map
        ELSE IF ~digit_pattern_search(candidate_file.name).matched THEN map
        ELSE LET key == static_scan_key(candidate_file.name)
                 m1  == IF KeyIndex(map, key) = 0
                        THEN Append(map, [key |-> key, orig |-> NonePath,
                                          strip |-> NonePath, dens |-> NonePath,
                                          stats |-> NonePath, directory |-> dir])
                        ELSE map
                 k   == KeyIndex(m1, key)
             IN  [m1 EXCEPT
                    ![k].orig  = IF orig_file # NonePath THEN orig_file ELSE @,
                    ![k].strip = IF strip_file # NonePath THEN strip_file ELSE @,
                    ![k].dens  = IF dens_file # NonePath THEN dens_file ELSE @,
                    ![k].stats = IF stats_file # NonePath THEN stats_file ELSE @]

\* tuples of numbers, compared as Python compares tuples
RECURSIVE TupleLeq(_, _)
TupleLeq(a, b) ==
    IF a = <<>> THEN TRUE
    ELSE IF b = <<>> THEN FALSE
    ELSE IF Head(a) # Head(b) THEN Head(a) < Head(b)
    ELSE TupleLeq(Tail(a), Tail(b))

\* a variant that puts an element before those of equal key
RECURSIVE InsertBeforeEqual(_, _)
InsertBeforeEqual(srt, x) ==
    IF srt = <<>> THEN <<x>>
    ELSE IF ~TupleLeq(x.nk, srt[Len(srt)].nk) THEN Append(srt, x)
    ELSE Append(InsertBeforeEqual(SubSeq(srt, 1, Len(srt) - 1), x), srt[Len(srt)])

\* sorted(): stable, an element goes after those whose key is not larger
RECURSIVE InsertStable(_, _)
InsertStable(srt, x) ==
    IF srt = <<>> THEN <<x>>
    ELSE IF TupleLeq(srt[Len(srt)].nk, x.nk) THEN Append(srt, x)
    ELSE Append(InsertStable(SubSeq(srt, 1, Len(srt) - 1), x), srt[Len(srt)])

RECURSIVE StableSort(_)
StableSort(seq) ==
    IF seq = <<>> THEN <<>>
    ELSE InsertStable(StableSort(SubSeq(seq, 1, Len(seq) - 1)), seq[Len(seq)])

\* generate_in_memory_pages.numeric_sort_key
server_numeric_sort_key(k) ==
    <<parse_int(str_remove(k[1], "sub-")),
      parse_int(str_remove(k[2], "ses-")),
      parse_int(str_remove(k[3], "run-"))>>

\* generate_html_reports.numeric_sort_key
static_numeric_sort_key(k) ==
    <<IntOfDigits(str_remove(k[1], "sub-")),
      IF k[2] # <<>> /\ k[2][1] = "ses-"
      THEN IntOfDigits(str_remove(k[2], "ses-")) ELSE 1>>

\* sorted(data_map.keys(), key=numeric_sort_key), as the entries of the keys
server_sorted(map) ==
    LET tagged == [k \in 1..Len(map) |->
                      [nk |-> server_numeric_sort_key(map[k].key), e |-> map[k]]]
        srt    == StableSort(tagged)
    IN  [k \in 1..Len(srt) |-> srt[k].e]

static_sorted(map) ==
    LET tagged == [k \in 1..Len(map) |->
                      [nk |-> static_numeric_sort_key(map[k].key), e |-> map[k]]]
        srt    == StableSort(tagged)
    IN  [k \in 1..Len(srt) |-> srt[k].e]

NoLink == 0 - 1

\* build_html_page for the entries from position idx on; embed_png and
\* embed_svg call store_file, which appends to FILE_MAP
RECURSIVE server_build_pages(_, _, _, _)
server_build_pages(entries, idx, pages, fmap) ==
    IF idx > Len(entries) THEN [pages |-> pages, fmap |-> fmap]
    ELSE
    LET e        == entries[idx]
        page_id  == idx - 1
        fm1      == IF e.orig # NonePath THEN Append(fmap, e.orig) ELSE fmap
        fm2      == IF e.strip # NonePath THEN Append(fm1, e.strip) ELSE fm1
        fm3      == IF e.dens # NonePath THEN Append(fm2, e.dens) ELSE fm2
        page     == [key   |-> e.key,
                     idx   |-> page_id,
                     prev  |-> IF page_id - 1 >= 0 THEN page_id - 1 ELSE NoLink,
                     next  |-> IF page_id + 1 < Len(entries) THEN page_id + 1 ELSE NoLink,
                     orig  |-> IF e.orig # NonePath
                               THEN [kind |-> "img", file_id |-> Len(fmap)]
                               ELSE [kind |-> "not_found", file_id |-> NoLink],
                     strip |-> IF e.strip # NonePath
                               THEN [kind |-> "img", file_id |-> Len(fm1)]
                               ELSE [kind |-> "not_found", file_id |-> NoLink],
                     dens  |-> IF e.dens # NonePath
                               THEN [kind |-> "object", file_id |-> Len(fm2)]
                               ELSE [kind |-> "not_found", file_id |-> NoLink],
                     stats |-> IF e.stats # NonePath
                               THEN [kind |-> "stats", file_id |-> NoLink]
                               ELSE [kind |-> "not_found", file_id |-> NoLink]]
    IN  server_build_pages(entries, idx + 1, Append(pages, page), fm3)

\* a variant that shows the stripped montage only next to an original one
static_build_reports_paired(entries) ==
    [i \in 1..Len(entries) |->
        [key   |-> entries[i].key,
         dir   |-> entries[i].directory,
         prev  |-> IF i - 1 > 0 THEN i - 2 ELSE NoLink,
         next  |-> IF i - 1 < Len(entries) - 1 THEN i ELSE NoLink,
         orig  |-> IF entries[i].orig # NonePath THEN "img" ELSE "not_found",
         strip |-> IF entries[i].strip # NonePath /\ entries[i].orig # NonePath
                   THEN "img" ELSE "not_found",
         dens  |-> IF entries[i].dens # NonePath THEN "object" ELSE "not_found",
         stats |-> IF entries[i].stats # NonePath THEN "stats" ELSE "not_found"]]

\* generate_html_reports, lines 94-129: one report per key, in sorted order
static_build_reports(entries) ==
    [i \in 1..Len(entries) |->
        [key   |-> entries[i].key,
         dir   |-> entries[i].directory,
         prev  |-> IF i - 1 > 0 THEN i - 2 ELSE NoLink,
         next  |-> IF i - 1 < Len(entries) - 1 THEN i ELSE NoLink,
         orig  |-> IF entries[i].orig # NonePath THEN "img" ELSE "not_found",
         strip |-> IF entries[i].strip # NonePath THEN "img" ELSE "not_found",
         dens  |-> IF entries[i].dens # NonePath THEN "object" ELSE "not_found",
         stats |-> IF entries[i].stats # NonePath THEN "stats" ELSE "not_found"]]

\* The filenames a results tree of the model may hold.
TreeFiles ==
    { <<"sub-", "1", "_", "T1w">> \o SufOrig,
      <<"sub-", "1", "_", "T1w">> \o SufStats,
      <<"sub-", "2", "_", "ses-", "2", "_", "run-", "3", "_", "T1w">> \o SufStats,
      <<"sub-", "1", "0", "_", "T1w">> \o SufDens,
      <<"sub-", "0", "1", "_", "T1w">> \o SufOrig,
      <<"sub-", "1", "_", "acq-x", "_", "ses-", "2", "_", "run-", "3", "_", "T1w">> \o SufOrig,
      <<"sub-", "1", "_", "acq-x", "_", "ses-", "2", "_", "run-", "4", "_", "T1w">> \o SufOrig,
      <<"sub-", "1", "_", "run-", "2", "_", "T1w">> \o SufStrip,
      <<"SUB-", "2", "_", "ses-", "6", "mo", "_", "T1w">> \o SufDens,
      <<"sub-", "1", "sub-", "2", "_", "T1w">> \o SufStats,
      <<"T1w">> \o SufStats,
      <<"sub-", "2", "_", "T1w", ".nii", ".gz">>,
      <<"notes.txt">> }

NoDuplicates(files) == \A i, j \in 1..Len(files) : i # j => files[i] # files[j]

FilesWalked == SumSeq([d \in 1..Len(walk) |-> Len(walk[d])])

InitGroup ==
    /\ walk = <<>> /\ data_map = <<>> /\ srv_pc = "walking"
    /\ PAGES = <<>> /\ FILE_MAP = <<>> /\ FILE_ID_COUNTER = 0
    /\ st_data_map = <<>> /\ st_pc = "walking" /\ st_reports = <<>>
    /\ StatsIdle
    /\ SlicesIdle
    /\ LedgerIdle
    /\ PipelineIdle

\* os.walk yields the next directory; each generator runs its loop body on it
WalkDir ==
    /\ srv_pc = "walking" /\ st_pc = "walking"
    /\ \E n \in 1..(MaxFiles - FilesWalked) : \E files \in [1..n -> TreeFiles] :
          /\ NoDuplicates(files)
          /\ walk' = Append(walk, files)
          /\ data_map' = server_walk_dir(data_map, Len(walk) + 1, files)
          /\ st_data_map' = static_walk_dir(st_data_map, Len(walk) + 1, files)
    /\ UNCHANGED <<srv_pc, PAGES, FILE_MAP, FILE_ID_COUNTER, st_pc, st_reports,
                   stats_lines, stats_text, stats_html, slVars, ldVars, ppVars>>

\* generate_in_memory_pages, lines 202-227: sort the keys, clear the globals,
\* build one page per key
ServerBuildPages ==
    /\ srv_pc = "walking"
    /\ LET built == server_build_pages(server_sorted(data_map), 1, <<>>, <<>>)
       IN  /\ PAGES' = built.pages
           /\ FILE_MAP' = built.fmap
           /\ FILE_ID_COUNTER' = Len(built.fmap)
    /\ srv_pc' = "built"
    /\ UNCHANGED <<walk, data_map, st_data_map, st_pc, st_reports,
                   stats_lines, stats_text, stats_html, slVars, ldVars, ppVars>>

\* generate_html_reports, lines 82-129: sort the keys, write the reports
StaticBuildReports ==
    /\ st_pc = "walking"
    /\ st_reports' = static_build_reports(static_sorted(st_data_map))
    /\ st_pc' = "built"
    /\ UNCHANGED <<walk, data_map, srv_pc, PAGES, FILE_MAP, FILE_ID_COUNTER,
                   st_data_map, stats_lines, stats_text, stats_html,
                   slVars, ldVars, ppVars>>

NextGroup == WalkDir \/ ServerBuildPages \/ StaticBuildReports

SpecGroup == InitGroup /\ [][NextGroup]_vars

(***************************************************************************)
(* Scan keys, grouping and order of the groups.                            *)
(***************************************************************************)
\* fname.split("_")
RECURSIVE Split(_)
Split(s) ==
    IF \A i \in 1..Len(s) : s[i] # "_" THEN <<s>>
    ELSE LET i == CHOOSE j \in 1..Len(s) : s[j] = "_" /\ \A h \in 1..(j - 1) : s[h] # "_"
         IN  <<SubSeq(s, 1, i - 1)>> \o Split(SubSeq(s, i + 1, Len(s)))

\* a segment holds a subject when "sub-" in it is followed by a token
SubjectAt(seg, j) == Lower(seg[j]) = "sub-" /\ j < Len(seg)
IsSubjectSegment(seg) == \E j \in 1..Len(seg) : SubjectAt(seg, j)
HasSubjectSegment(f) == \E k \in 1..Len(Split(f)) : IsSubjectSegment(Split(f)[k])
SubjectSegment(f) ==
    CHOOSE k \in 1..Len(Split(f)) :
        IsSubjectSegment(Split(f)[k]) /\ \A h \in 1..(k - 1) : ~IsSubjectSegment(Split(f)[h])
SubjectToken(f) ==
    LET seg == Split(f)[SubjectSegment(f)]
        j   == CHOOSE i \in 1..Len(seg) :
                   SubjectAt(seg, i) /\ \A h \in 1..(i - 1) : ~SubjectAt(seg, h)
    IN  SubSeq(seg, j, Len(seg))
IsSegmentOf(seg, prefix) == Len(seg) >= 2 /\ Lower(seg[1]) = prefix

\* the key read from the segments wherever they stand after the subject
AnywhereKey(f) ==
    LET segs  == Split(f)
        k     == SubjectSegment(f)
        first(prefix) ==
            IF \E h \in (k + 1)..Len(segs) : IsSegmentOf(segs[h], prefix)
            THEN segs[CHOOSE h \in (k + 1)..Len(segs) :
                        /\ IsSegmentOf(segs[h], prefix)
                        /\ \A g \in (k + 1)..(h - 1) : ~IsSegmentOf(segs[g], prefix)]
            ELSE <<>>
    IN  <<SubjectToken(f),
          IF first("ses-") # <<>> THEN first("ses-") ELSE DefaultSession,
          first("run-")>>

\* the key read from the segments that directly follow the subject
AdjacentKey(f) ==
    LET segs   == Split(f)
        k      == SubjectSegment(f)
        hasSes == k + 1 <= Len(segs) /\ IsSegmentOf(segs[k + 1], "ses-")
        r      == IF hasSes THEN k + 2 ELSE k + 1
        hasRun == r <= Len(segs) /\ IsSegmentOf(segs[r], "run-")
    IN  <<SubjectToken(f),
          IF hasSes THEN segs[k + 1] ELSE DefaultSession,
          IF hasRun THEN segs[r] ELSE <<>>>>

IsMarked(f) ==
    \/ Contains(f, SufOrig) \/ Contains(f, SufStrip) \/ Contains(f, SufDens)
    \/ Contains(f, SufStats) \/ Contains(f, VolumeName)

Visits == UNION { { <<d, i>> : i \in 1..Len(walk[d]) } : d \in 1..Len(walk) }
FileAt(v) == walk[v[1]][v[2]]

KeysAre(keyOf(_)) ==
    /\ \A v \in Visits :
          IsMarked(FileAt(v)) /\ HasSubjectSegment(FileAt(v))
              => KeyIndex(data_map, keyOf(FileAt(v))) # 0
    /\ \A k \in 1..Len(data_map) : \E v \in Visits :
          /\ IsMarked(FileAt(v)) /\ HasSubjectSegment(FileAt(v))
          /\ data_map[k].key = keyOf(FileAt(v))

Later(a, b) == a[1] > b[1] \/ (a[1] = b[1] /\ a[2] > b[2])
LastVisit(S) == CHOOSE a \in S : \A b \in S : a = b \/ Later(a, b)
LastPath(S) == IF S = {} THEN NonePath ELSE Path(LastVisit(S)[1], FileAt(LastVisit(S)))

ServerWriters(K, suf) ==
    { v \in Visits : /\ EndsWith(FileAt(v), suf)
                     /\ server_pattern_search(FileAt(v)).matched
                     /\ server_scan_key(FileAt(v)) = K }
StaticWriters(K, suf) ==
    { v \in Visits : /\ EndsWith(FileAt(v), suf)
                     /\ digit_pattern_search(FileAt(v)).matched
                     /\ static_scan_key(FileAt(v)) = K }

ServerGrouping ==
    /\ \A k \in 1..Len(data_map) :
          LET e == data_map[k]
          IN  /\ e.orig  = LastPath(ServerWriters(e.key, SufOrig))
              /\ e.strip = LastPath(ServerWriters(e.key, SufStrip))
              /\ e.dens  = LastPath(ServerWriters(e.key, SufDens))
              /\ e.stats = LastPath(ServerWriters(e.key, SufStats))
    /\ \A v \in Visits : \A suf \in {SufOrig, SufStrip, SufDens, SufStats} :
          EndsWith(FileAt(v), suf) /\ server_pattern_search(FileAt(v)).matched
              => KeyIndex(data_map, server_scan_key(FileAt(v))) # 0

StaticGrouping ==
    /\ \A k \in 1..Len(st_data_map) :
          LET e == st_data_map[k]
          IN  /\ e.orig  = LastPath(StaticWriters(e.key, SufOrig))
              /\ e.strip = LastPath(StaticWriters(e.key, SufStrip))
              /\ e.dens  = LastPath(StaticWriters(e.key, SufDens))
              /\ e.stats = LastPath(StaticWriters(e.key, SufStats))
    /\ \A v \in Visits : \A suf \in {SufOrig, SufStrip, SufDens, SufStats} :
          EndsWith(FileAt(v), suf) /\ digit_pattern_search(FileAt(v)).matched
              => KeyIndex(st_data_map, static_scan_key(FileAt(v))) # 0

\* C5: in the review server and in the static generator, each slot of each
\* key holds the path of the last visited file that ends with the slot's
\* suffix and whose own name resolves to the key, and is empty without one
C5_Grouping == ServerGrouping /\ StaticGrouping

RECURSIVE LeadingDigits(_)
LeadingDigits(s) ==
    IF s = <<>> \/ Head(s) \notin Digits THEN <<>>
    ELSE <<Head(s)>> \o LeadingDigits(Tail(s))

RECURSIVE FirstDigitRun(_)
FirstDigitRun(s) ==
    IF s = <<>> THEN <<>>
    ELSE IF Head(s) \in Digits THEN LeadingDigits(s)
    ELSE FirstDigitRun(Tail(s))

RECURSIVE DecimalValue(_, _)
DecimalValue(ds, acc) ==
    IF ds = <<>> THEN acc ELSE DecimalValue(Tail(ds), 10 * acc + DigitValue(Head(ds)))

\* the first run of digits of a token, 0 without digits
NumberOf(tok) == DecimalValue(FirstDigitRun(tok), 0)

KeyPrefixes == <<"sub-", "ses-", "run-">>
TokenNumbers(key) == [i \in 1..Len(key) |-> NumberOf(key[i])]
StrippedNumbers(key) == [i \in 1..Len(key) |-> NumberOf(str_remove(key[i], KeyPrefixes[i]))]

\* out holds every key of map once, non-decreasing in num, equal numbers
\* in the order of insertion into map
OrderedBy(out, map, num(_)) ==
    /\ Len(out) = Len(map)
    /\ \A k \in 1..Len(map) : \E i \in 1..Len(out) : out[i].key = map[k].key
    /\ \A i, j \in 1..Len(out) :
          i < j => /\ TupleLeq(num(out[i].key), num(out[j].key))
                   /\ num(out[i].key) = num(out[j].key)
                        => KeyIndex(map, out[i].key) < KeyIndex(map, out[j].key)

\* C6 as stated: the pages and the reports are ordered by the first run of
\* digits of each token of the key, ties in insertion order
C6_Original ==
    /\ srv_pc = "built" => OrderedBy(PAGES, data_map, TokenNumbers)
    /\ st_pc = "built" => OrderedBy(st_reports, st_data_map, TokenNumbers)

\* C6: the pages and the reports are ordered non-decreasingly by the tuple of
\* numbers of the key's tokens, ties in insertion order, where the number of
\* a token is the first run of digits of the token with every "sub-" (for the
\* session "ses-", for the run "run-") taken out of it, 0 without digits; the
\* token of an absent session is ses-01, of an absent run ""
C6_Amended ==
    /\ srv_pc = "built" => OrderedBy(PAGES, data_map, StrippedNumbers)
    /\ st_pc = "built" => OrderedBy(st_reports, st_data_map, StrippedNumbers)

C6_Witness ==
    /\ srv_pc = "built" /\ st_pc = "built"
    /\ Len(PAGES) >= 3 /\ Len(st_reports) >= 2
    /\ \E i \in 1..Len(PAGES) : KeyIndex(data_map, PAGES[i].key) # i
    /\ \E i, j \in 1..Len(PAGES) :
          i # j /\ StrippedNumbers(PAGES[i].key) = StrippedNumbers(PAGES[j].key)
    /\ \E i \in 1..Len(PAGES) :
          StrippedNumbers(PAGES[i].key) # TokenNumbers(PAGES[i].key)

NoSubject(f) == \A i \in 1..Len(f) : Lower(f[i]) # "sub-"
WithoutUnparseable(tree) ==
    [d \in 1..Len(tree) |-> SelectSeq(tree[d], LAMBDA f : ~NoSubject(f))]

RECURSIVE ServerWalkFrom(_, _, _)
ServerWalkFrom(map, tree, d) ==
    IF d > Len(tree) THEN map
    ELSE ServerWalkFrom(server_walk_dir(map, d, tree[d]), tree, d + 1)

RECURSIVE StaticWalkFrom(_, _, _)
StaticWalkFrom(map, tree, d) ==
    IF d > Len(tree) THEN map
    ELSE StaticWalkFrom(static_walk_dir(map, d, tree[d]), tree, d + 1)

ServerExcludes == data_map = ServerWalkFrom(<<>>, WithoutUnparseable(walk), 1)
StaticExcludes == st_data_map = StaticWalkFrom(<<>>, WithoutUnparseable(walk), 1)

\* C7: in the review server and in the static generator, the groups of a
\* tree are those of the tree without its files that have no subject segment
C7_Excluded == ServerExcludes /\ StaticExcludes

(***************************************************************************)
(* The QC passes: traverse_bids_initial and traverse_bids_final.           *)
(***************************************************************************)
ScanType == <<"T1w">>

\* The filenames a BIDS tree of the model may hold.
ScanNames ==
    { <<"sub-", "1", "_", "T1w", ".nii", ".gz">>,
      <<"sub-", "2", "_", "ses-", "2", "_", "T1w", ".nii">>,
      <<"T1w", ".nii", ".gz">>,
      <<"sub-", "1", "_", "T2w", ".nii", ".gz">> }

\* What the environment does for one scan: nib.load and plotting succeed or
\* raise, or only the load inside analyze_nifti raises; skull stripping, when
\* it runs, produces the volume, or the image is unavailable, or the tool
\* exits non-zero, or it exits zero without an output file.
Outcomes == {"ok", "load_fails", "plot_fails", "stats_fails"}
Strippings == {"produced", "no_image", "strip_failed", "no_output"}

ScanFiles ==
    [name : ScanNames, in_results : BOOLEAN, outcome : Outcomes, strip : Strippings]

\* load_accepted_csv: the set of (subject_id, session_id) rows
AcceptedLists ==
    SUBSET { <<<<"sub-", "1">>, DefaultSession>>, <<<<"sub-", "2">>, <<"ses-", "2">>>> }

\* extract_sub_ses: (None, None) without a match
NoneKey == <<<<"None">>, <<"None">>>>
extract_sub_ses(fname) ==
    LET m == digit_pattern_search(fname)
    IN  IF m.matched
        THEN <<m.g1, IF m.g2 # <<>> THEN m.g2 ELSE DefaultSession>>
        ELSE NoneKey

\* (fname.endswith(".nii") or fname.endswith(".nii.gz")) and (scan_type in fname)
matches_scan(fname) ==
    /\ EndsWith(fname, <<".nii">>) \/ EndsWith(fname, <<".nii", ".gz">>)
    /\ Contains(fname, ScanType)

\* os.path.splitext(p)[0]: without the last extension
splitext(name) ==
    IF Len(name) >= 2 /\ name[Len(name)] \in {".nii", ".gz"}
    THEN SubSeq(name, 1, Len(name) - 1)
    ELSE name

\* f"{base_no_ext}_skullstripped.nii.gz"
stripped_filename(name) ==
    splitext(splitext(name)) \o <<"_", "skullstripped", ".nii", ".gz">>

\* a variant that never finds the stripped volume
stripped_exists_never(files, f) == FALSE

\* os.path.exists(stripped_path), in the directory of the scan
stripped_exists(files, f) ==
    \E g \in files : g.name = stripped_filename(f.name) /\ g.in_results = f.in_results

Artifact(i, kind, slices) == [scan |-> i, kind |-> kind, slices |-> slices]
LogRecord(i, level, msg) == [scan |-> i, level |-> level, msg |-> msg]

\* analyze_nifti: the statistics, or {} (here <<>>) when the load raises
analyze_nifti(f) ==
    IF f.outcome \in {"load_fails", "stats_fails"} THEN <<>> ELSE <<"stats">>

\* the log record of analyze_nifti's except branch
analyze_nifti_log(i, f) ==
    IF analyze_nifti(f) = <<>> THEN {LogRecord(i, "error", "analyze_nifti failed")} ELSE {}

\* the statistics record and the density plot, written for non-empty statistics
stats_and_density(i, f) ==
    IF analyze_nifti(f) # <<>>
    THEN {Artifact(i, "stats", "none"), Artifact(i, "density", "none")}
    ELSE {}

NoResult ==
    [raised |-> FALSE, written |-> {}, log |-> {}, produced |-> FALSE, invoked |-> FALSE]

\* process_scan_initial: what it writes and logs, and whether an exception
\* leaves it
process_scan_initial(i, f) ==
    IF f.outcome = "load_fails" THEN [NoResult EXCEPT !.raised = TRUE]
    ELSE IF f.outcome = "plot_fails" THEN [NoResult EXCEPT !.raised = TRUE]
    ELSE [NoResult EXCEPT
            !.written = {Artifact(i, "original_slices", "original")}
                        \cup stats_and_density(i, f),
            !.log = analyze_nifti_log(i, f)]

\* a variant in which a failed skull stripping raises
process_scan_final_raising(i, f, exists) ==
    [NoResult EXCEPT !.raised = TRUE, !.produced = ~exists /\ f.strip = "produced",
                     !.invoked = ~exists /\ f.strip # "no_image"]

\* process_scan_final: what it writes and logs, whether it produces the
\* stripped volume, and whether an exception leaves it
process_scan_final(i, f, exists) ==
    IF ~exists /\ f.strip = "no_image"
    THEN [NoResult EXCEPT
            !.log = {LogRecord(i, "error", "Could not ensure Docker image availability. Skipping.")}]
    ELSE IF ~exists /\ f.strip = "strip_failed"
    THEN [NoResult EXCEPT
            !.invoked = TRUE,
            !.log = {LogRecord(i, "error", "Skull stripping failed"),
                     LogRecord(i, "warning", "No skull-stripped file produced")}]
    ELSE IF ~exists /\ f.strip = "no_output"
    THEN [NoResult EXCEPT
            !.invoked = TRUE,
            !.log = {LogRecord(i, "warning", "No skull-stripped file produced")}]
    ELSE
    LET made == ~exists
    IN  IF f.outcome = "load_fails"
        THEN [NoResult EXCEPT !.raised = TRUE, !.produced = made, !.invoked = made]
        ELSE IF "ensure_results_dir" \notin FinalGlobals
        THEN [NoResult EXCEPT !.raised = TRUE, !.produced = made, !.invoked = made]
        ELSE IF f.outcome = "plot_fails"
        THEN [NoResult EXCEPT !.raised = TRUE, !.produced = made, !.invoked = made]
        ELSE [NoResult EXCEPT
                !.produced = made, !.invoked = made,
                !.written = {Artifact(i, "skullstripped_slices", "stripped"),
                             Artifact(i, "original_slices", "stripped")}
                            \cup stats_and_density(i, f),
                !.log = analyze_nifti_log(i, f)]

\* the volume process_skull_stripping writes next to the scan; the tool is
\* taken to treat it as it treated the scan
stripped_file(f) == [f EXCEPT !.name = stripped_filename(f.name)]

DistinctNames(tree) == \A i, j \in 1..Len(tree) : i # j => tree[i].name # tree[j].name

InitPipeline ==
    /\ \E n \in 1..MaxScans : bids_tree \in [1..n -> ScanFiles]
    /\ DistinctNames(bids_tree)
    /\ fs = {bids_tree[i] : i \in 1..Len(bids_tree)}
    /\ accepted \in AcceptedLists
    /\ pass \in {"initial", "final"}
    /\ tv_pc = "walking" /\ tv_pos = 0 /\ processed = {} /\ written = {}
    /\ derived = {} /\ tool_runs = {} /\ tv_log = {} /\ run_no = 1
    /\ SlicesIdle
    /\ LedgerIdle
    /\ GroupIdle

\* traverse_bids_initial: the loop body for the next file
InitialVisit ==
    /\ pass = "initial" /\ tv_pc = "walking" /\ tv_pos < Len(bids_tree)
    /\ LET i == tv_pos + 1
           f == bids_tree[i]
       IN  /\ tv_pos' = i
           /\ IF ~f.in_results /\ matches_scan(f.name)
              THEN LET r == process_scan_initial(i, f)
                   IN  /\ processed' = processed \cup {i}
                       /\ written' = written \cup r.written
                       /\ tv_log' = tv_log \cup r.log
                       /\ tv_pc' = IF r.raised THEN "aborted" ELSE "walking"
              ELSE UNCHANGED <<processed, written, tv_log, tv_pc>>
    /\ UNCHANGED <<bids_tree, accepted, pass, fs, derived, tool_runs, run_no,
                   slVars, ldVars, grVars>>

\* traverse_bids_initial: os.walk is exhausted
InitialFinish ==
    /\ pass = "initial" /\ tv_pc = "walking" /\ tv_pos = Len(bids_tree)
    /\ tv_pc' = "done"
    /\ UNCHANGED <<bids_tree, accepted, pass, tv_pos, processed, written,
                   fs, derived, tool_runs, tv_log, run_no, slVars, ldVars, grVars>>

\* traverse_bids_final: the loop body for the next file
FinalVisit ==
    /\ pass = "final" /\ tv_pc = "walking" /\ tv_pos < Len(bids_tree)
    /\ LET i == tv_pos + 1
           f == bids_tree[i]
       IN  /\ tv_pos' = i
           /\ IF ~f.in_results /\ matches_scan(f.name)
                 /\ extract_sub_ses(f.name) \in accepted
              THEN LET r == process_scan_final(i, f, stripped_exists(fs, f))
                   IN  /\ processed' = processed \cup {i}
                       /\ written' = written \cup r.written
                       /\ tv_log' = tv_log \cup r.log
                       /\ fs' = IF r.produced THEN fs \cup {stripped_file(f)} ELSE fs
                       /\ derived' = IF r.produced
                                     THEN derived \cup {stripped_file(f)} ELSE derived
                       /\ tool_runs' =
                             IF r.invoked
                             THEN tool_runs \cup {[run |-> run_no, name |-> f.name,
                                                   in_results |-> f.in_results,
                                                   produced |-> r.produced]}
                             ELSE tool_runs
                       /\ tv_pc' = IF r.raised THEN "aborted" ELSE "walking"
              ELSE UNCHANGED <<processed, written, tv_log, fs, derived, tool_runs, tv_pc>>
    /\ UNCHANGED <<bids_tree, accepted, pass, run_no, slVars, ldVars, grVars>>

\* traverse_bids_final: os.walk is exhausted
FinalFinish ==
    /\ pass = "final" /\ tv_pc = "walking" /\ tv_pos = Len(bids_tree)
    /\ tv_pc' = "done"
    /\ UNCHANGED <<bids_tree, accepted, pass, tv_pos, processed, written,
                   fs, derived, tool_runs, tv_log, run_no, slVars, ldVars, grVars>>

NextPipeline == InitialVisit \/ InitialFinish \/ FinalVisit \/ FinalFinish

SpecPipeline == InitPipeline /\ [][NextPipeline]_vars

Selected(i) ==
    /\ ~bids_tree[i].in_results /\ matches_scan(bids_tree[i].name)
    /\ pass = "final" => extract_sub_ses(bids_tree[i].name) \in accepted

\* C8: a scan whose load or plot fails stops only itself: the traversal does
\* not abort, and when it ends every selected scan has been processed
C8_Isolation ==
    /\ tv_pc # "aborted"
    /\ tv_pc = "done" => \A i \in 1..Len(bids_tree) : Selected(i) => i \in processed

\* C9: an accepted scan given to process_scan_final whose stripped volume
\* exists or is produced, and whose volumes load and plot, has its stripped
\* and original montages (both at the slices chosen on the stripped volume),
\* its statistics and its density plot written
C9_FinalOutput ==
    \A i \in processed :
        /\ pass = "final"
        /\ \E g \in fs : g.name = stripped_filename(bids_tree[i].name)
        /\ bids_tree[i].outcome = "ok"
        => { Artifact(i, "skullstripped_slices", "stripped"),
             Artifact(i, "original_slices", "stripped"),
             Artifact(i, "stats", "none"),
             Artifact(i, "density", "none") } \subseteq written

\* C10: when the final traversal is over, the scans given to
\* process_scan_final are exactly the matching scans whose (subject, session)
\* key is in the accepted list, and none of them is without a key
C10_Membership ==
    pass = "final" /\ tv_pc \in {"done", "aborted"}
        => /\ processed = { i \in 1..Len(bids_tree) : Selected(i) }
           /\ \A i \in processed : extract_sub_ses(bids_tree[i].name) # NoneKey

StripFailures == {"no_image", "strip_failed", "no_output"}

\* the scans given to process_scan_final whose stripped volume was neither
\* there nor produced
StripFailed(i) ==
    /\ pass = "final" /\ i \in processed
    /\ bids_tree[i].strip \in StripFailures
    /\ ~stripped_exists(fs, bids_tree[i])

\* C11: a scan whose skull stripping is unavailable, fails or leaves no
\* output has no artifact written, has the failure logged, and the traversal
\* goes on after it
C11_StripFailureSkips ==
    \A i \in 1..Len(bids_tree) :
        StripFailed(i) =>
            /\ \A a \in written : a.scan # i
            /\ \E l \in tv_log : l.scan = i
            /\ tv_pos = i => tv_pc # "aborted"

C11_Witness ==
    \E i \in 1..Len(bids_tree) :
        /\ StripFailed(i)
        /\ tv_pos > i
        /\ tv_pos \in processed

EmptyStatistics(i) ==
    i \in processed /\ bids_tree[i].outcome \in {"load_fails", "stats_fails"}

\* C12: a scan whose volume analyze_nifti cannot load gets no statistics
\* record and no density plot, and the rest of its processing and the
\* traversal finish normally: its montage is written and no exception leaves
\* the traversal
C12_StatsOptional ==
    \A i \in 1..Len(bids_tree) :
        EmptyStatistics(i) /\ ~StripFailed(i) =>
            /\ \A a \in written : a.scan = i => a.kind \notin {"stats", "density"}
            /\ \E a \in written : a.scan = i /\ a.kind = "original_slices"
            /\ tv_pos = i => tv_pc # "aborted"

(***************************************************************************)
(* Rendering a statistics record: embed_stats of the review server and of  *)
(* the static generator.                                                   *)
(***************************************************************************)
Space == " "
Whitespace == {Space, CR, LF}

\* s.strip()
RECURSIVE str_lstrip(_)
str_lstrip(s) ==
    IF s # <<>> /\ Head(s) \in Whitespace THEN str_lstrip(Tail(s)) ELSE s

RECURSIVE str_rstrip(_)
str_rstrip(s) ==
    IF s # <<>> /\ s[Len(s)] \in Whitespace
    THEN str_rstrip(SubSeq(s, 1, Len(s) - 1)) ELSE s

str_strip(s) == str_rstrip(str_lstrip(s))

\* s.split(sep)
RECURSIVE str_split(_, _)
str_split(s, sep) ==
    IF \A i \in 1..Len(s) : s[i] # sep THEN <<s>>
    ELSE LET i == CHOOSE j \in 1..Len(s) : s[j] = sep /\ \A h \in 1..(j - 1) : s[h] # sep
         IN  <<SubSeq(s, 1, i - 1)>> \o str_split(SubSeq(s, i + 1, Len(s)), sep)

\* float(v) does not raise ValueError
is_float(v) ==
    LET t == str_strip(v)
    IN  t # <<>> /\ \A i \in 1..Len(t) : t[i] \in Digits

\* all_numeric(vals)
all_numeric(vals) == \A i \in 1..Len(vals) : is_float(vals[i])

\* [line.strip() for line in f if line.strip()]
read_lines(text) ==
    LET raw      == str_split(text, LF)
        stripped == [i \in 1..Len(raw) |-> str_strip(raw[i])]
    IN  SelectSeq(stripped, LAMBDA l : l # <<>>)

Html(kind, values) == [kind |-> kind, values |-> values]

\* the body of the try block of the server's embed_stats: the page, or the
\* exception raised
server_embed_stats_try(text) ==
    LET lines == read_lines(text)
    IN  IF Len(lines) = 0 THEN Html("Empty CSV", <<>>)
        ELSE LET parts == IF Len(lines) >= 2 /\ all_numeric(str_split(lines[2], Delim))
                          THEN str_split(lines[2], Delim)
                          ELSE str_split(lines[1], Delim)
             IN  IF Len(parts) # 5 THEN Html("Expected 5 columns", <<Len(parts)>>)
                 ELSE Html("Statistics", parts)

\* struct_generate_html_reports.embed_stats
server_embed_stats(text) ==
    LET r == server_embed_stats_try(text)
    IN  IF r.kind = "raised" THEN Html("Error reading CSV", <<>>) ELSE r

\* the body of the try block of the static embed_stats: the values, or the
\* exception raised (lines[0] of no lines)
static_embed_stats_try(text) ==
    LET lines == read_lines(text)
    IN  IF Len(lines) >= 2 /\ all_numeric(str_split(lines[2], Delim))
        THEN Html("values", str_split(lines[2], Delim))
        ELSE IF Len(lines) = 0 THEN Html("raised", <<"IndexError">>)
        ELSE Html("values", str_split(lines[1], Delim))

\* a variant that selects the data line after the try block
static_embed_stats_unguarded(text) ==
    LET r == static_embed_stats_try(text)
    IN  IF r.kind = "raised" THEN r
        ELSE IF Len(r.values) # 5 THEN Html("Unexpected format", <<Len(r.values)>>)
        ELSE Html("Statistics", r.values)

\* struct_report_generator.embed_stats
static_embed_stats(text) ==
    LET r == static_embed_stats_try(text)
    IN  IF r.kind = "raised" THEN Html("Unable to read CSV", <<>>)
        ELSE IF Len(r.values) # 5 THEN Html("Unexpected format", <<Len(r.values)>>)
        ELSE Html("Statistics", r.values)

\* The lines a statistics record of the model may hold: k fields that are
\* all numbers, numbers after a space, all words, or a word and numbers; an
\* empty line; a line of spaces.
LineKinds == {"num", "spaced", "txt", "mixed"}
FieldDigits == <<"1", "2", "3", "4", "5", "6", "7", "8", "9">>
StatsField(kind, l, i) ==
    CASE kind = "num"    -> <<FieldDigits[l], FieldDigits[i]>>
      [] kind = "spaced" -> <<Space, FieldDigits[l], FieldDigits[i]>>
      [] kind = "txt"    -> <<"x">>
      [] kind = "mixed"  -> IF i = 1 THEN <<"x">> ELSE <<FieldDigits[l], FieldDigits[i]>>

LineShapes ==
    [kind : LineKinds, n : 1..MaxFields] \cup {[kind |-> "blank", n |-> 0],
                                               [kind |-> "empty", n |-> 0]}

RECURSIVE JoinWith(_, _)
JoinWith(parts, sep) ==
    IF parts = <<>> THEN <<>>
    ELSE IF Len(parts) = 1 THEN parts[1]
    ELSE parts[1] \o <<sep>> \o JoinWith(Tail(parts), sep)

LineFields(shape, l) == [i \in 1..shape.n |-> StatsField(shape.kind, l, i)]
LineText(shape, l) ==
    IF shape.kind = "blank" THEN <<Space, Space>>
    ELSE JoinWith(LineFields(shape, l), Delim)

\* the file: every line ended by a line feed
FileText(shapes) ==
    JoinWith([l \in 1..Len(shapes) |-> LineText(shapes[l], l)], LF)
        \o (IF shapes = <<>> THEN <<>> ELSE <<LF>>)

NoHtml == Html("none", <<>>)

InitStats ==
    /\ \E n \in 0..MaxLines : stats_lines \in [1..n -> LineShapes]
    /\ stats_text = FileText(stats_lines)
    /\ stats_html = [server |-> NoHtml, static |-> NoHtml]
    /\ ReportsIdle
    /\ SlicesIdle
    /\ LedgerIdle
    /\ PipelineIdle

\* build_html_page: stats_html = embed_stats(files_info["stats"])
ServerEmbedStats ==
    /\ stats_html # <<>> /\ stats_html.server = NoHtml
    /\ stats_html' = [stats_html EXCEPT !.server = server_embed_stats(stats_text)]
    /\ UNCHANGED <<walk, data_map, srv_pc, PAGES, FILE_MAP, FILE_ID_COUNTER,
                   st_data_map, st_pc, st_reports, stats_lines, stats_text,
                   slVars, ldVars, ppVars>>

\* generate_html_reports: stats_tbl = embed_stats(files_info["stats"])
StaticEmbedStats ==
    /\ stats_html # <<>> /\ stats_html.static = NoHtml
    /\ stats_html' = [stats_html EXCEPT !.static = static_embed_stats(stats_text)]
    /\ UNCHANGED <<walk, data_map, srv_pc, PAGES, FILE_MAP, FILE_ID_COUNTER,
                   st_data_map, st_pc, st_reports, stats_lines, stats_text,
                   slVars, ldVars, ppVars>>

NextStats == ServerEmbedStats \/ StaticEmbedStats

SpecStats == InitStats /\ [][NextStats]_vars

\* the lines of the record that are not blank, each with its line number
NonBlankLines ==
    SelectSeq([l \in 1..Len(stats_lines) |-> [shape |-> stats_lines[l], l |-> l]],
              LAMBDA x : x.shape.kind \notin {"blank", "empty"})

IsNumericLine(x) == x.shape.kind \in {"num", "spaced"}

\* the data line: the second line when it is numeric, else the first
DataLine ==
    IF Len(NonBlankLines) >= 2 /\ IsNumericLine(NonBlankLines[2])
    THEN NonBlankLines[2] ELSE NonBlankLines[1]

Diagnostics ==
    {"Empty CSV", "Expected 5 columns", "Error reading CSV",
     "Unexpected format", "Unable to read CSV"}

RendersWell(html) ==
    html # NoHtml =>
        /\ html.kind \in Diagnostics \cup {"Statistics"}
        /\ NonBlankLines = <<>> => html.kind \in Diagnostics
        /\ NonBlankLines # <<>> /\ DataLine.shape.n # 5 => html.kind \in Diagnostics
        /\ /\ Len(NonBlankLines) >= 2
           /\ ~IsNumericLine(NonBlankLines[1])
           /\ IsNumericLine(NonBlankLines[2])
           /\ NonBlankLines[2].shape.n = 5
           => /\ html.kind = "Statistics"
              /\ Len(html.values) = 5
              /\ \A i \in 1..5 :
                    str_strip(html.values[i]) =
                        StatsField("num", NonBlankLines[2].l, i)

\* C14: neither embed_stats raises, whatever the file holds; a data line
\* without exactly 5 fields (or no line at all) gives a diagnostic message
\* and no table; a header followed by 5 numeric fields gives the table of
\* the values of the numeric line
C14_StatsRendering ==
    stats_html # <<>> => RendersWell(stats_html.server) /\ RendersWell(stats_html.static)

C14_Witness ==
    /\ stats_html # <<>>
    /\ stats_lines = <<[kind |-> "txt", n |-> 5], [kind |-> "spaced", n |-> 5]>>
    /\ stats_html.server.kind = "Statistics"
    /\ stats_html.static.kind = "Statistics"

Slots == {"orig", "strip", "dens", "stats"}
EmbedKind == [orig |-> "img", strip |-> "img", dens |-> "object", stats |-> "stats"]

\* the page shows the placeholder for the empty slots of the group and the
\* embedded file for the others
ServerPageShows(page, e) ==
    /\ \A sl \in Slots :
          /\ e[sl] = NonePath <=> page[sl].kind = "not_found"
          /\ e[sl] # NonePath <=> page[sl].kind = EmbedKind[sl]
    /\ \A sl \in {"orig", "strip", "dens"} :
          e[sl] # NonePath =>
              /\ page[sl].file_id \in 0..(FILE_ID_COUNTER - 1)
              /\ FILE_MAP[page[sl].file_id + 1] = e[sl]

StaticReportShows(rep, e) ==
    \A sl \in Slots :
        /\ e[sl] = NonePath <=> rep[sl] = "not_found"
        /\ e[sl] # NonePath <=> rep[sl] = EmbedKind[sl]

\* C15: every group gets its page or report whatever slots it has, with the
\* 'No file found' placeholder for exactly the empty slots and the embedded
\* artifact for exactly the others
C15_Placeholders ==
    /\ srv_pc = "built" =>
          /\ Len(PAGES) = Len(data_map)
          /\ \A k \in 1..Len(data_map) : \E i \in 1..Len(PAGES) :
                PAGES[i].key = data_map[k].key /\ ServerPageShows(PAGES[i], data_map[k])
    /\ st_pc = "built" =>
          /\ Len(st_reports) = Len(st_data_map)
          /\ \A k \in 1..Len(st_data_map) : \E i \in 1..Len(st_reports) :
                /\ st_reports[i].key = st_data_map[k].key
                /\ StaticReportShows(st_reports[i], st_data_map[k])

C15_Witness ==
    /\ srv_pc = "built" /\ st_pc = "built"
    /\ \E i \in 1..Len(PAGES) :
          /\ PAGES[i].orig.kind = "not_found" /\ PAGES[i].strip.kind = "img"
          /\ PAGES[i].stats.kind = "not_found"
    /\ \E i \in 1..Len(st_reports) :
          st_reports[i].orig = "not_found" /\ st_reports[i].strip = "img"
    /\ \E i \in 1..Len(PAGES) : \A sl \in Slots : PAGES[i][sl].kind = "not_found"

AllNotFound(page) == \A sl \in Slots : page[sl].kind = "not_found"

\* the visited files that make or feed the group of a key
GroupFiles(key) ==
    { v \in Visits : /\ IsMarked(FileAt(v))
                     /\ server_pattern_search(FileAt(v)).matched
                     /\ server_scan_key(FileAt(v)) = key }

HasArtifactSuffix(f) ==
    \/ EndsWith(f, SufOrig) \/ EndsWith(f, SufStrip)
    \/ EndsWith(f, SufDens) \/ EndsWith(f, SufStats)

\* C20 as stated: no page of the review server has its four sections all
\* 'No file found'
C20_Original ==
    srv_pc = "built" => \A i \in 1..Len(PAGES) : ~AllNotFound(PAGES[i])

\* C20: every page of the review server comes from at least one visited file
\* that carries one of the five markers (the four suffixes or T1w.nii.gz) and
\* a subject segment, and every such file has its page; the four sections of
\* a page are all 'No file found' exactly when none of the files of its key
\* ends with one of the four suffixes
C20_Amended ==
    srv_pc = "built" =>
        /\ \A i \in 1..Len(PAGES) :
              /\ GroupFiles(PAGES[i].key) # {}
              /\ AllNotFound(PAGES[i])
                    <=> \A v \in GroupFiles(PAGES[i].key) : ~HasArtifactSuffix(FileAt(v))
        /\ \A v \in Visits :
              IsMarked(FileAt(v)) /\ server_pattern_search(FileAt(v)).matched
                  => \E i \in 1..Len(PAGES) : PAGES[i].key = server_scan_key(FileAt(v))

C20_Witness ==
    /\ srv_pc = "built"
    /\ Len(PAGES) >= 2
    /\ \E i \in 1..Len(PAGES) : AllNotFound(PAGES[i])
    /\ \E i \in 1..Len(PAGES) : ~AllNotFound(PAGES[i])

\* C18: every slice index the selection returns is drawn in the montage, in
\* the initial pass and in the final pass, for every num_slices >= 1
C18_AllDrawn ==
    /\ (sl_pc \in {"initial", "final"} => Len(drawn_initial) = Len(res_initial))
    /\ (sl_pc = "final" => Len(drawn_final) = Len(res_final))

(***************************************************************************)
(* Repeated runs of the passes over one BIDS tree (SpecRerun).             *)
(***************************************************************************)
\* os.walk lists the files of a directory in the order of os.listdir, which
\* is arbitrary
Listings(files) ==
    { t \in [1..Cardinality(files) -> files] :
          \A i, j \in 1..Cardinality(files) : i # j => t[i] # t[j] }

InitRerun ==
    /\ \E n \in 1..MaxRerunScans : bids_tree \in [1..n -> ScanFiles]
    /\ DistinctNames(bids_tree)
    /\ fs = {bids_tree[i] : i \in 1..Len(bids_tree)}
    /\ accepted \in AcceptedLists
    /\ pass \in {"initial", "final"}
    /\ tv_pc = "walking" /\ tv_pos = 0 /\ processed = {} /\ written = {}
    /\ derived = {} /\ tool_runs = {} /\ tv_log = {} /\ run_no = 1
    /\ SlicesIdle
    /\ LedgerIdle
    /\ GroupIdle

\* main of either pass is started again on the same tree, with the same
\* accepted list: the traversal walks the files that are there now; the
\* records of the earlier runs keep the positions of their own listing
Rerun ==
    /\ tv_pc \in {"done", "aborted"}
    /\ run_no < MaxRuns
    /\ run_no' = run_no + 1
    /\ pass' \in {"initial", "final"}
    /\ bids_tree' \in Listings(fs)
    /\ tv_pc' = "walking" /\ tv_pos' = 0 /\ processed' = {}
    /\ UNCHANGED <<accepted, written, fs, derived, tool_runs, tv_log,
                   slVars, ldVars, grVars>>

NextRerun == InitialVisit \/ InitialFinish \/ FinalVisit \/ FinalFinish \/ Rerun

SpecRerun == InitRerun /\ [][NextRerun]_vars

\* C17: the volume the final pass writes next to a scan is never given to
\* process_scan_initial or process_scan_final by a later traversal, and no
\* run derives a volume from a derived volume
C17_SameInputs ==
    /\ \A i \in processed : bids_tree[i] \notin derived
    /\ \A g \in derived : \A h \in derived : g.name # stripped_filename(h.name)

(***************************************************************************)
(* The (subject, session) pair of a filename in the three components.      *)
(***************************************************************************)
\* the pair of the final pass's accepted-list filter
FinalPair(f) == extract_sub_ses(f)

\* the pair of the static report grouping, (None, None) without a match
StaticPair(f) ==
    IF digit_pattern_search(f).matched THEN static_scan_key(f) ELSE NoneKey

\* the pair of the review-server grouping, (None, None) without a match
ServerPair(f) ==
    IF server_pattern_search(f).matched
    THEN <<server_scan_key(f)[1], server_scan_key(f)[2]>>
    ELSE NoneKey

\* C19: for every filename of the walked tree, the accepted-list filter, the
\* static grouping and the server grouping all fail to extract a (subject,
\* session) pair or all return the same pair
C19_SamePair ==
    \A v \in Visits :
        /\ FinalPair(FileAt(v)) = StaticPair(FileAt(v))
        /\ StaticPair(FileAt(v)) = ServerPair(FileAt(v))

(***************************************************************************)
(* Runs, navigation and the file-id map of the review server.              *)
(***************************************************************************)
\* a variant that refuses the last index too
show_report_short(pages, page_id) ==
    IF page_id < 0 \/ page_id >= Len(pages) - 1
    THEN [code |-> 404, idx |-> NoLink]
    ELSE [code |-> 200, idx |-> pages[page_id + 1].idx]

\* show_report: the page of index page_id, or 404
show_report(pages, page_id) ==
    IF page_id < 0 \/ page_id >= Len(pages)
    THEN [code |-> 404, idx |-> NoLink]
    ELSE [code |-> 200, idx |-> pages[page_id + 1].idx]

\* the path a slot of the group of a key holds
SlotPath(entry, f) ==
    IF EndsWith(f, SufOrig) THEN entry.orig
    ELSE IF EndsWith(f, SufStrip) THEN entry.strip
    ELSE IF EndsWith(f, SufDens) THEN entry.dens
    ELSE entry.stats

\* the visited artifact files the review server groups
ServerArtifacts ==
    { v \in Visits : HasArtifactSuffix(FileAt(v)) /\ HasSubjectSegment(FileAt(v)) }

\* two files of one subject and session whose names carry different run
\* segments
DifferentRuns(v, w) ==
    /\ AnywhereKey(FileAt(v))[1] = AnywhereKey(FileAt(w))[1]
    /\ AnywhereKey(FileAt(v))[2] = AnywhereKey(FileAt(w))[2]
    /\ AnywhereKey(FileAt(v))[3] # <<>>
    /\ AnywhereKey(FileAt(w))[3] # <<>>
    /\ AnywhereKey(FileAt(v))[3] # AnywhereKey(FileAt(w))[3]

\* C21: two artifact files of the same subject and session whose names carry
\* different run segments have different scan keys, and each of them is held
\* by the slot of its own group (neither overwrites the other)
C21_RunsApart ==
    \A v, w \in ServerArtifacts :
        DifferentRuns(v, w) =>
            /\ server_scan_key(FileAt(v)) # server_scan_key(FileAt(w))
            /\ \A u \in {v, w} :
                  LET k == KeyIndex(data_map, server_scan_key(FileAt(u)))
                  IN  k # 0 /\ SlotPath(data_map[k], FileAt(u)) = Path(u[1], FileAt(u))

(***************************************************************************)
(* The number of slices selected (SpecSlices).                             *)
(***************************************************************************)
WindowLo(d, n) == Max(0, BestSlice(d) - 5 * n)
WindowHi(d, n) == Min(Len(d) - 1, BestSlice(d) + 5 * n)

CountExact(res) ==
    LET lo == WindowLo(data, num_slices)
        hi == WindowHi(data, num_slices)
    IN  /\ Len(res) = Min(num_slices, hi - lo + 1)
        /\ Len(res) < num_slices =>
              /\ num_slices > hi - lo + 1
              /\ res = [k \in 1..(hi - lo + 1) |-> lo + k - 1]

\* C22: either copy of find_slices_of_interest returns exactly
\* min(N, hi - lo + 1) indices; it returns fewer than N only when
\* N > hi - lo + 1, and then every index of [lo, hi]
C22_CountExact ==
    /\ (sl_pc \in {"initial", "final"} => CountExact(res_initial))
    /\ (sl_pc = "final" => CountExact(res_final))

\* C22 witness: a window clamped at the low end only whose span is smaller
\* than N, all of it returned by both copies
C22_Witness ==
    /\ sl_pc = "final"
    /\ WindowLo(data, num_slices) = 0
    /\ WindowHi(data, num_slices) >= 3
    /\ num_slices > WindowHi(data, num_slices) + 1
    /\ Len(res_final) = WindowHi(data, num_slices) + 1
    /\ Len(res_initial) = Len(res_final)

(***************************************************************************)
(* Requests without a filename or a status (SpecLedger).                   *)
(***************************************************************************)
Lacks(d, key) == key \notin DOMAIN d \/ d[key] = <<>>

\* C26: a qc_update request whose filename or status is absent or empty is
\* answered 400, and serving it leaves the ledger file as it was: same
\* existence, same content, not written
C26_MissingRejected ==
    [][ Lacks(request', "filename") \/ Lacks(request', "status")
            => /\ http_status' = 400
               /\ csv_written' = FALSE
               /\ csv_exists' = csv_exists
               /\ csv_text' = csv_text ]_vars

\* C26 witness: a ledger of two entries, and the last request, with a status
\* and notes but no filename key, was refused without a write
C26_Witness ==
    /\ Len(csv_DictReader(csv_text)) = 2
    /\ "filename" \notin DOMAIN request
    /\ "status" \in DOMAIN request /\ request["status"] # <<>>
    /\ "notes" \in DOMAIN request /\ request["notes"] # <<>>
    /\ http_status = 400
    /\ csv_written = FALSE

\* the indices reached from page i by following Next, i first
RECURSIVE FollowNext(_, _, _)
FollowNext(pages, i, fuel) ==
    IF fuel = 0 \/ show_report(pages, i).code # 200 THEN <<>>
    ELSE <<i>> \o (IF pages[i + 1].next = NoLink THEN <<>>
                   ELSE FollowNext(pages, pages[i + 1].next, fuel - 1))

\* C23: PAGES[i] is the page of the i-th key in sort order; page i links to
\* Previous i-1 exactly when i > 0 and to Next i+1 exactly when i < n-1;
\* show_report serves every link target; following Next from page 0 visits
\* every page exactly once; show_report answers 404 outside 0..n-1
C23_Navigation ==
    srv_pc = "built" =>
        LET n    == Len(PAGES)
            keys == server_sorted(data_map)
        IN  /\ n = Len(keys)
            /\ \A i \in 0..(n - 1) :
                  /\ PAGES[i + 1].key = keys[i + 1].key
                  /\ PAGES[i + 1].idx = i
                  /\ PAGES[i + 1].prev = (IF i > 0 THEN i - 1 ELSE NoLink)
                  /\ PAGES[i + 1].next = (IF i < n - 1 THEN i + 1 ELSE NoLink)
                  /\ \A l \in {PAGES[i + 1].prev, PAGES[i + 1].next} \ {NoLink} :
                        show_report(PAGES, l).code = 200
                  /\ show_report(PAGES, i) = [code |-> 200, idx |-> i]
            /\ n > 0 => FollowNext(PAGES, 0, n + 1) = [k \in 1..n |-> k - 1]
            /\ \A p \in {0 - 2, 0 - 1, n, n + 1} : show_report(PAGES, p).code = 404

\* C23 witness: three pages, the middle one with both links
C23_Witness ==
    /\ srv_pc = "built"
    /\ Len(PAGES) = 3
    /\ PAGES[2].prev = 0 /\ PAGES[2].next = 2
    /\ PAGES[3].next = NoLink

(***************************************************************************)
(* generate_in_memory_pages called again on the tree as it is then         *)
(* (SpecRegen).                                                            *)
(***************************************************************************)
\* a variant that leaves FILE_MAP and FILE_ID_COUNTER as they are
clear_globals_pages(pages, fmap) == [pages |-> <<>>, fmap |-> fmap]

\* generate_in_memory_pages, lines 215-219: PAGES.clear(), FILE_MAP.clear(),
\* FILE_ID_COUNTER = 0
clear_globals(pages, fmap) == [pages |-> <<>>, fmap |-> <<>>]

\* one call of generate_in_memory_pages, the first or a further one: it
\* walks the tree, which may hold other files now, clears the globals and
\* builds the pages
Regenerate ==
    /\ srv_pc \in {"walking", "built", "rebuilt"}
    /\ \E n \in 1..MaxRegenFiles : \E files \in [1..n -> TreeFiles] :
          /\ NoDuplicates(files)
          /\ walk' = <<files>>
          /\ data_map' = server_walk_dir(<<>>, 1, files)
          /\ st_data_map' = static_walk_dir(<<>>, 1, files)
          /\ LET g     == clear_globals(PAGES, FILE_MAP)
                 built == server_build_pages(server_sorted(data_map'), 1, g.pages, g.fmap)
             IN  /\ PAGES' = built.pages
                 /\ FILE_MAP' = built.fmap
                 /\ FILE_ID_COUNTER' = Len(built.fmap)
    /\ srv_pc' = IF srv_pc = "walking" THEN "built" ELSE "rebuilt"
    /\ UNCHANGED <<st_pc, st_reports, stats_lines, stats_text, stats_html,
                   slVars, ldVars, ppVars>>

SpecRegen == InitGroup /\ [][Regenerate]_vars

\* the image and SVG embeds of the pages: page index and slot
Embeds ==
    { e \in (1..Len(PAGES)) \X {"orig", "strip", "dens"} :
          PAGES[e[1]][e[2]].kind # "not_found" }

\* C24: after every call of generate_in_memory_pages the keys of FILE_MAP
\* are 0..FILE_ID_COUNTER-1, the embeds have ids of their own, the id of
\* every embed is a key of FILE_MAP mapped to the path of the embed's slot,
\* and FILE_MAP holds nothing but the ids of the embeds of the pages
C24_FileIds ==
    srv_pc \in {"built", "rebuilt"} =>
        LET entries == server_sorted(data_map)
        IN  /\ Len(FILE_MAP) = FILE_ID_COUNTER
            /\ \A e, f \in Embeds :
                  e # f => PAGES[e[1]][e[2]].file_id # PAGES[f[1]][f[2]].file_id
            /\ \A e \in Embeds :
                  /\ PAGES[e[1]][e[2]].file_id \in 0..(FILE_ID_COUNTER - 1)
                  /\ FILE_MAP[PAGES[e[1]][e[2]].file_id + 1] = entries[e[1]][e[2]]
            /\ Cardinality(Embeds) = Len(FILE_MAP)

\* C24 witness: the pages were built again, two pages with one embed each
\* and a map of these two ids
C24_Witness ==
    /\ srv_pc = "rebuilt"
    /\ Len(PAGES) = 2
    /\ Cardinality(Embeds) = 2
    /\ PAGES[1].orig.kind = "img" /\ PAGES[2].dens.kind = "object"
    /\ Len(FILE_MAP) = 2

(***************************************************************************)
(* Skull stripping over repeated final passes (SpecRerun).                 *)
(***************************************************************************)
\* C25: the tool is run for a scan only when no stripped volume of the scan
\* is next to it: a scan has at most one run of the tool that left its
\* output, no run of the tool after that one, and a run of the tool that left
\* its output is the one that derived the volume
C25_StripOnce ==
    /\ \A t, u \in tool_runs :
          t.name = u.name /\ t.in_results = u.in_results /\ t.produced
              => u.run <= t.run /\ (u.produced => u = t)
    /\ \A t \in tool_runs :
          t.produced => \E g \in derived : g.name = stripped_filename(t.name)

\* C25 witness: a later final pass has given process_scan_final a scan whose
\* stripped volume an earlier pass derived, and the tool was not run for it
\* in this pass
C25_Witness ==
    /\ pass = "final" /\ run_no >= 2
    /\ \E i \in processed :
          /\ bids_tree[i] \notin derived
          /\ \E t \in tool_runs :
                t.name = bids_tree[i].name /\ t.produced /\ t.run < run_no
          /\ \A t \in tool_runs : t.name = bids_tree[i].name => t.run < run_no

====
